---- MODULE Spec2Model ----
(***************************************************************************)
(* Model of the IRCC questionnaire wizard (src/src/api/v1/wizard.py) and   *)
(* of the form auto-fill service it calls (src/src/services/               *)
(* form_service.py).                                                       *)
(*                                                                         *)
(* The wizard keeps one module-level dictionary, session_answers_store,    *)
(* in the memory of the server process.  The model is of one server        *)
(* process (settings.DEBUG defaults to True, so uvicorn runs one worker).  *)
(* Every endpoint is an `async def`; the handlers that touch the store     *)
(* contain no await, and the coroutines get_prefilled_forms awaits do no   *)
(* I/O, so a handler runs to completion on the event loop: Spec has one    *)
(* action per handler.  SpecConc models submit_questionnaire_answers and   *)
(* get_saved_answers step by step, as tasks scheduled by the event loop.   *)
(*                                                                         *)
(* The Lambda functions and the form service are functions of their input: *)
(* SpecElig applies the eligibility check (src/src/lambdas/                *)
(* eligibility_check.py), SpecForms the form service, the wizard's         *)
(* auto_fill_forms and the form fill Lambda (src/src/lambdas/form_fill.py),*)
(* SpecOcr the OCR field mapper (src/src/lambdas/ocr_handler.py), each to  *)
(* an event drawn in the initial state.                                    *)
(*                                                                         *)
(* SpecDocs has one action per document endpoint (src/src/api/v1/          *)
(* documents.py and documents_simple.py) over the document metadata store. *)
(* SpecHeap keeps the IRCCForm objects of the form service as a heap, so   *)
(* that a form handed out and a template are the same object or not.       *)
(* SpecBatch applies the OCR Lambda function to a batch of SQS records     *)
(* and keeps the documents table it writes.  SpecFlow is one execution of  *)
(* the Visa Wizard workflow (src/infrastructure/stepfn_stack.py), and      *)
(* SpecFlowLive adds that Step Functions keeps running an execution that   *)
(* has a step to take.                                                     *)
(***************************************************************************)
EXTENDS Integers, Sequences, FiniteSets, TLC

VARIABLES
    session_answers_store,  \* wizard.py:24  session id -> (question id -> value)
    now,                    \* the wall clock, in seconds (datetime.now())
    resp,                   \* the response of the last request handled
    repeat,                 \* history: the last request repeated the one before it
    pc,                     \* SpecConc: position of each task in its handler
    loop,                   \* SpecConc: the task the event loop is running, or "free"
    args,                   \* SpecConc: session id and request body of each task
    remaining,              \* SpecConc: keys dict.update has still to copy, per task
    base,                   \* SpecConc: the store when the concurrent requests arrived
    observed,               \* SpecConc: what each finished task returned
    event,                  \* the input of the function under study (a Lambda event,
                            \* questionnaire responses, an OCR result), or NoEvent
    result,                 \* what the function returned for event, or NoResponse
    metadata_store,         \* the document metadata table: document id -> metadata
    form_heap,              \* the IRCCForm objects made or assigned to since the form
                            \* service was constructed: object -> form
    returned,               \* the forms auto_fill_form has returned: the object
                            \* and the form it held when it was returned
    documents_table,        \* the table TABLE_DOCS of the OCR Lambda function:
                            \* document id -> status and OCR mode
    execution               \* an execution of the Visa Wizard workflow

vars == <<session_answers_store, now, resp, repeat, pc, loop, args, remaining, base, observed,
          event, result, metadata_store, form_heap, returned,
          documents_table, execution>>

wizardVars == <<session_answers_store, now, resp, repeat>>
concVars == <<pc, loop, args, remaining, base, observed>>
callVars == <<event, result>>
docVars == <<metadata_store>>
heapVars == <<form_heap, returned>>
ocrVars == <<documents_table>>
flowVars == <<execution>>
extVars == <<docVars, heapVars, ocrVars, flowVars>>

-----------------------------------------------------------------------------
(* Bounds *)

MaxClock == 1

-----------------------------------------------------------------------------
(* Python values.  A value carries its type, because str() and truthiness  *)
(* depend on it.                                                           *)

S(s) == [kind |-> "str", s |-> s]
\* a float, held in tenths: N(206350) is 20635.0 and N(75) is 7.5
N(tenths) == [kind |-> "float", tenths |-> tenths]
B(b) == [kind |-> "bool", b |-> b]
D(y, m, d) == [kind |-> "date", y |-> y, m |-> m, d |-> d]
NoneVal == [kind |-> "none"]

EmptyMap == <<>>

\* len(d) of a dict
Len_(d) == Cardinality(DOMAIN d)

-----------------------------------------------------------------------------
(* Inputs *)

Users == {"anonymous"}

\* session id format of start_wizard_session; the timestamp has a resolution
\* of one second
SessionIdFor(t, user_id) == "session_" \o ToString(t) \o "_" \o user_id

\* session ids a client may put in the URL (any string is accepted; these are
\* the ones start can also return)
SessionIds == {SessionIdFor(t, u) : t \in 0..MaxClock, u \in Users}

\* values a client submits, per question id
KeyValues ==
    [purpose_in_canada |-> {S("Study"), S("Visit")},
     passport_country_code |-> {S("IND"), S("CAN")}]

SubmitKeys == DOMAIN KeyValues

\* request bodies of POST /questionnaire/{session_id}: every partial map of
\* the keys above to their values, the empty body included
AnswerMaps ==
    {a \in UNION {[ks -> UNION {KeyValues[k] : k \in ks}] : ks \in SUBSET SubmitKeys} :
        \A k \in DOMAIN a : a[k] \in KeyValues[k]}

-----------------------------------------------------------------------------
(* session_answers_store *)

\* dict.update: new overrides old key by key
DictUpdateFirstWins(old, new) ==
    [k \in DOMAIN old \cup DOMAIN new |->
        IF k \in DOMAIN old THEN old[k] ELSE new[k]]

DictUpdateReplace(old, new) == new

DictUpdate(old, new) ==
    [k \in DOMAIN old \cup DOMAIN new |->
        IF k \in DOMAIN new THEN new[k] ELSE old[k]]

\* `if session_id not in session_answers_store: session_answers_store[session_id] = {}`
EnsureSession(store, session_id) ==
    IF session_id \in DOMAIN store
    THEN store
    ELSE [s \in DOMAIN store \cup {session_id} |->
            IF s = session_id THEN EmptyMap ELSE store[s]]

\* session_answers_store[session_id].update(answers)
UpdateSession(store, session_id, answers) ==
    [store EXCEPT ![session_id] = DictUpdate(@, answers)]

\* the answers a reader finds for a session: {} when it has no entry
StoredAnswers(store, session_id) ==
    IF session_id \in DOMAIN store THEN store[session_id] ELSE EmptyMap

-----------------------------------------------------------------------------
(* The question tree: sections -> steps -> questions, in insertion order.   *)
(* conditional_logic is <<>> for a question without a rule and <<rule>>     *)
(* for one with a rule.                                                     *)

Rule(depends_on, show_if) == [depends_on |-> depends_on, show_if |-> show_if]

Question(question_id, question_type, required, conditional_logic) ==
    [question_id |-> question_id, question_type |-> question_type,
     required |-> required, conditional_logic |-> conditional_logic]

build_question_tree == <<
    [section_id |-> "getting_started", section_name |-> "Getting Started", steps |-> <<
        [step_id |-> "basic_info", questions |-> <<
            Question("purpose_in_canada", "single_choice", TRUE, <<>>),
            Question("duration_of_stay", "single_choice", TRUE, <<Rule("purpose_in_canada", {"Study", "Work"})>>),
            Question("passport_country_code", "country_select", TRUE, <<>>),
            Question("current_residence", "country_select", TRUE, <<>>),
            Question("has_canadian_family", "yes_no", TRUE, <<>>),
            Question("date_of_birth", "date", TRUE, <<>>)>>]>>],
    [section_id |-> "education_background", section_name |-> "Education Background", steps |-> <<
        [step_id |-> "education_status", questions |-> <<
            Question("has_provincial_attestation", "yes_no", TRUE, <<>>),
            Question("attestation_province", "province_select", TRUE, <<Rule("has_provincial_attestation", {"Yes"})>>),
            Question("accepted_to_dli", "yes_no", TRUE, <<>>),
            Question("post_secondary_institution", "yes_no", TRUE, <<Rule("accepted_to_dli", {"Yes"})>>),
            Question("institution_name", "text", TRUE, <<Rule("accepted_to_dli", {"Yes"})>>),
            Question("program_name", "text", TRUE, <<Rule("accepted_to_dli", {"Yes"})>>),
            Question("program_duration", "single_choice", TRUE, <<Rule("accepted_to_dli", {"Yes"})>>),
            Question("program_start_date", "date", TRUE, <<Rule("accepted_to_dli", {"Yes"})>>)>>]>>],
    [section_id |-> "financial_information", section_name |-> "Financial Information", steps |-> <<
        [step_id |-> "financial_status", questions |-> <<
            Question("has_sds_gic", "yes_no", TRUE, <<>>),
            Question("tuition_paid_full", "yes_no", TRUE, <<>>),
            Question("gic_amount", "number", TRUE, <<Rule("has_sds_gic", {"Yes"})>>),
            Question("tuition_amount", "number", TRUE, <<Rule("tuition_paid_full", {"Yes"})>>),
            Question("funding_source", "multiple_choice", TRUE, <<>>)>>]>>],
    [section_id |-> "language_requirements", section_name |-> "Language Requirements", steps |-> <<
        [step_id |-> "language_test", questions |-> <<
            Question("has_language_test", "yes_no", TRUE, <<>>),
            Question("test_type", "single_choice", TRUE, <<Rule("has_language_test", {"Yes"})>>),
            Question("all_scores_6_plus", "yes_no", TRUE, <<Rule("test_type", {"IELTS"})>>),
            Question("listening_score", "number", TRUE, <<Rule("test_type", {"IELTS"})>>),
            Question("reading_score", "number", TRUE, <<Rule("test_type", {"IELTS"})>>),
            Question("writing_score", "number", TRUE, <<Rule("test_type", {"IELTS"})>>),
            Question("speaking_score", "number", TRUE, <<Rule("test_type", {"IELTS"})>>),
            Question("overall_score", "number", TRUE, <<Rule("test_type", {"IELTS"})>>)>>]>>],
    [section_id |-> "medical_background", section_name |-> "Medical Information", steps |-> <<
        [step_id |-> "medical_exam", questions |-> <<
            Question("has_medical_exam", "yes_no", TRUE, <<>>),
            Question("exam_date", "date", TRUE, <<Rule("has_medical_exam", {"Yes"})>>),
            Question("panel_physician", "text", TRUE, <<Rule("has_medical_exam", {"Yes"})>>),
            Question("medical_ref_number", "text", TRUE, <<Rule("has_medical_exam", {"Yes"})>>)>>]>>],
    [section_id |-> "background_checks", section_name |-> "Background Information", steps |-> <<
        [step_id |-> "personal_background", questions |-> <<
            Question("marital_status", "single_choice", TRUE, <<>>),
            Question("destination_province", "province_select", TRUE, <<>>),
            Question("criminal_background", "yes_no", TRUE, <<>>),
            Question("has_valid_permits", "yes_no", TRUE, <<>>),
            Question("wants_family_application", "yes_no", TRUE, <<>>),
            Question("has_biometrics", "yes_no", TRUE, <<>>)>>]>>],
    [section_id |-> "final_steps", section_name |-> "Final Steps", steps |-> <<
        [step_id |-> "fees_payment", questions |-> <<
            Question("will_pay_fees", "yes_no", TRUE, <<>>),
            Question("pay_online", "yes_no", TRUE, <<Rule("will_pay_fees", {"Yes"})>>),
            Question("can_scan_documents", "yes_no", TRUE, <<>>)>>]>>]>>

\* the QuestionnaireStep enum's first member, the step start() reports
BASIC_INFO == "basic_info"

\* get_wizard_tree: question_id -> id, question_type -> type
TransformQuestion(question) ==
    [id |-> question.question_id, type |-> question.question_type,
     required |-> question.required,
     conditional_logic |-> question.conditional_logic]

RECURSIVE StepQuestions(_)
\* get_wizard_tree: the questions of all steps of a section, in order
StepQuestions(steps) ==
    IF steps = <<>> THEN <<>>
    ELSE [i \in 1..Len(Head(steps).questions) |->
            TransformQuestion(Head(steps).questions[i])]
         \o StepQuestions(Tail(steps))

\* get_wizard_tree: one flattened section per section of the tree
FlattenSections(tree) ==
    [i \in 1..Len(tree) |->
        [section_id |-> tree[i].section_id,
         section_name |-> tree[i].section_name,
         questions |-> StepQuestions(tree[i].steps)]]

\* get_wizard_tree: flattened_sections, the same for every request
flattened_sections == FlattenSections(build_question_tree)

\* the current_step get_wizard_tree reports for a session
TreeCurrentStepByProgress(store, session_id) ==
    IF session_id \in DOMAIN store /\ DOMAIN store[session_id] # {}
    THEN "education_status" ELSE "basic_info"

TreeCurrentStep(store, session_id) == "basic_info"

\* the body get_wizard_tree returns
WizardTree(store, session_id) ==
    [op |-> "tree",
     session_id |-> session_id,
     current_step |-> TreeCurrentStep(store, session_id),
     total_steps |-> 21,
     completion_percentage |-> 0,
     sections |-> flattened_sections]

-----------------------------------------------------------------------------
(* str() and truthiness of the Python values *)

Pad2(n) == IF n < 10 THEN "0" \o ToString(n) ELSE ToString(n)

\* str(value)
Str(v) ==
    CASE v.kind = "str" -> v.s
      [] v.kind = "float" -> ToString(v.tenths \div 10) \o "." \o ToString(v.tenths % 10)
      [] v.kind = "bool" -> IF v.b THEN "True" ELSE "False"
      [] v.kind = "date" -> ToString(v.y) \o "-" \o Pad2(v.m) \o "-" \o Pad2(v.d)
      [] v.kind = "none" -> "None"

\* bool(value), as `if value:` evaluates it
Truthy(v) ==
    CASE v.kind = "str" -> v.s # ""
      [] v.kind = "float" -> v.tenths # 0
      [] v.kind = "bool" -> v.b
      [] v.kind = "date" -> TRUE
      [] v.kind = "none" -> FALSE

\* d.get(k): None for a missing key
Get(d, k) == IF k \in DOMAIN d THEN d[k] ELSE NoneVal

\* d.get(k, default)
GetOr(d, k, default) == IF k \in DOMAIN d THEN d[k] ELSE default

\* the strings str.strip() empties
WhitespaceOnly == {"", " ", "  "}

-----------------------------------------------------------------------------
(* Form templates (form_service.py) *)

\* the moment form_service is constructed: before the first request
ServiceInitTime == 0

\* FormField(field_id, field_name, field_type, is_required=...): value is None
FormField(field_id, field_name, is_required) ==
    [field_id |-> field_id, field_name |-> field_name,
     value |-> NoneVal, is_required |-> is_required]

\* a percentage completed / total * 100, held as a fraction
Pct(completed, total) ==
    IF total > 0 THEN [num |-> completed * 100, den |-> total]
    ELSE [num |-> 0, den |-> 1]

\* IRCCForm(...): completion_percentage 0.0, is_valid False, no errors,
\* generated_at = utcnow() at construction
IRCCForm(form_type, form_title, form_version, sections) ==
    [form_type |-> form_type, form_title |-> form_title,
     form_version |-> form_version, sections |-> sections,
     completion_percentage |-> Pct(0, 0), is_valid |-> FALSE,
     validation_errors |-> <<>>, generated_at |-> ServiceInitTime]

create_imm1294_template ==
    IRCCForm("IMM1294", "Application for Study Permit Made Outside of Canada", "11-2023", <<
        [section_id |-> "personal_details", fields |-> <<
            FormField("family_name", "Family name (surname)", TRUE),
            FormField("given_names", "Given name(s) (first name)", TRUE),
            FormField("other_names", "Other names (if applicable)", FALSE),
            FormField("date_of_birth", "Date of birth", TRUE),
            FormField("country_of_birth", "Country of birth", TRUE),
            FormField("place_of_birth", "Place of birth (city/town)", TRUE),
            FormField("sex", "Sex", TRUE),
            FormField("marital_status", "Marital status", TRUE)>>],
        [section_id |-> "passport_travel_doc", fields |-> <<
            FormField("passport_number", "Passport/Document number", TRUE),
            FormField("passport_country", "Country of issue", TRUE),
            FormField("passport_issue_date", "Date of issue", TRUE),
            FormField("passport_expiry_date", "Date of expiry", TRUE)>>],
        [section_id |-> "contact_info", fields |-> <<
            FormField("mailing_address", "Mailing address", TRUE),
            FormField("residential_address", "Residential address", TRUE),
            FormField("telephone", "Telephone number", TRUE),
            FormField("email", "Email address", TRUE)>>],
        [section_id |-> "education_occupation", fields |-> <<
            FormField("education_level", "Level of education", TRUE),
            FormField("current_occupation", "Current occupation", TRUE),
            FormField("intended_occupation", "Intended occupation in Canada", TRUE)>>],
        [section_id |-> "details_study", fields |-> <<
            FormField("level_of_study", "Level of study", TRUE),
            FormField("field_of_study", "Field of study", TRUE),
            FormField("institution_name", "Name of institution", TRUE),
            FormField("institution_address", "Address of institution", TRUE),
            FormField("program_duration", "Duration of program", TRUE),
            FormField("program_start_date", "Program start date", TRUE),
            FormField("tuition_fees", "Tuition fees (CAD)", TRUE)>>],
        [section_id |-> "funds_financial_support", fields |-> <<
            FormField("funds_available", "Funds available for my stay (CAD)", TRUE),
            FormField("source_of_funds", "Source of funds", TRUE),
            FormField("scholarship", "Scholarship/Fellowship details", FALSE)>>],
        [section_id |-> "background_info", fields |-> <<
            FormField("previous_study_permit", "Have you previously applied for a study permit?", TRUE),
            FormField("refused_visa", "Have you been refused a visa or permit?", TRUE),
            FormField("medical_exam", "Have you had a medical exam?", TRUE),
            FormField("criminal_charges", "Have you ever been charged with a criminal offence?", TRUE)>>]>>)

create_imm5645_template ==
    IRCCForm("IMM5645", "Family Information", "01-2024", <<
        [section_id |-> "applicant_info", fields |-> <<
            FormField("family_name", "Family name", TRUE),
            FormField("given_names", "Given names", TRUE),
            FormField("date_of_birth", "Date of birth", TRUE),
            FormField("place_of_birth", "Place of birth", TRUE)>>],
        [section_id |-> "family_members", fields |-> <<
            FormField("spouse_info", "Spouse information", FALSE),
            FormField("children_info", "Children information", FALSE),
            FormField("parents_info", "Parents information", TRUE),
            FormField("siblings_info", "Siblings information", FALSE)>>]>>)

create_imm5257_template ==
    IRCCForm("IMM5257", "Application for Temporary Resident Visa Made Outside Canada", "03-2014", <<
        [section_id |-> "personal_details", fields |-> <<
            FormField("family_name", "Family name", TRUE),
            FormField("given_names", "Given names", TRUE),
            FormField("date_of_birth", "Date of birth", TRUE),
            FormField("country_of_birth", "Country of birth", TRUE)>>],
        [section_id |-> "travel_info", fields |-> <<
            FormField("purpose_of_visit", "Purpose of visit", TRUE),
            FormField("intended_date_arrival", "Intended date of arrival", TRUE),
            FormField("intended_length_stay", "Intended length of stay", TRUE)>>]>>)


IMM1294 == "IMM1294"
IMM5645 == "IMM5645"
IMM5257 == "IMM5257"

FormTypes == {IMM1294, IMM5645, IMM5257}

\* FormAutoFillService.form_templates
form_templates ==
    [t \in FormTypes |->
        CASE t = IMM1294 -> create_imm1294_template
          [] t = IMM5645 -> create_imm5645_template
          [] t = IMM5257 -> create_imm5257_template]

\* copy.deepcopy(self.form_templates[form_type])
get_form_template(form_type) == form_templates[form_type]

-----------------------------------------------------------------------------
(* Auto-fill (form_service.py).  `responses` is the nested questionnaire   *)
(* dictionary: section name -> dictionary, plus top-level scalars.         *)

\* responses.get(section, {})
Section(responses, name) == GetOr(responses, name, EmptyMap)

\* field_mappings of _auto_fill_imm1294
Imm1294Mappings(responses) ==
    LET basic_info == Section(responses, "basic_info")
        education_status == Section(responses, "education_status")
        financial_status == Section(responses, "financial_status")
        medical_exam == Section(responses, "medical_exam")
    IN  [date_of_birth |-> Get(basic_info, "date_of_birth"),
         country_of_birth |-> Get(basic_info, "passport_country_code"),
         marital_status |-> GetOr(responses, "marital_status", S("Never Married/Single")),
         passport_country |-> Get(basic_info, "passport_country_code"),
         institution_name |-> Get(education_status, "institution_name"),
         program_duration |-> Get(education_status, "program_duration"),
         program_start_date |-> Get(education_status, "program_start_date"),
         tuition_fees |-> Get(financial_status, "tuition_amount"),
         funds_available |-> Get(financial_status, "gic_amount"),
         source_of_funds |-> Get(financial_status, "funding_source"),
         medical_exam |-> IF Truthy(Get(medical_exam, "has_medical_exam"))
                          THEN S("Yes") ELSE S("No"),
         criminal_charges |-> IF ~Truthy(Get(responses, "criminal_background"))
                              THEN S("No") ELSE S("Yes")]

\* field_mappings of _auto_fill_imm5645
Imm5645Mappings(responses) ==
    LET basic_info == Section(responses, "basic_info")
    IN  [date_of_birth |-> Get(basic_info, "date_of_birth"),
         place_of_birth |-> Get(basic_info, "current_residence"),
         spouse_info |-> IF Get(responses, "marital_status") = S("Never Married/Single")
                         THEN S("Not applicable") ELSE S(""),
         parents_info |-> S("To be provided based on family questionnaire")]

\* field_mappings of _auto_fill_imm5257
Imm5257Mappings(responses) ==
    LET basic_info == Section(responses, "basic_info")
        education_status == Section(responses, "education_status")
    IN  [date_of_birth |-> Get(basic_info, "date_of_birth"),
         country_of_birth |-> Get(basic_info, "passport_country_code"),
         purpose_of_visit |-> S("Study"),
         intended_date_arrival |-> Get(education_status, "program_start_date"),
         intended_length_stay |-> Get(education_status, "program_duration")]

\* `if field.field_id in field_mappings and field_mappings[field.field_id]:
\*      field.value = str(field_mappings[field.field_id])`, for every field
ApplyMappings(form, field_mappings) ==
    [form EXCEPT !.sections =
        [i \in 1..Len(form.sections) |->
            [form.sections[i] EXCEPT !.fields =
                [j \in 1..Len(form.sections[i].fields) |->
                    LET f == form.sections[i].fields[j]
                    IN  IF f.field_id \in DOMAIN field_mappings
                           /\ Truthy(field_mappings[f.field_id])
                        THEN [f EXCEPT !.value = S(Str(field_mappings[f.field_id]))]
                        ELSE f]]]]

RECURSIVE AllFields(_)
\* the fields of a form in the order the nested loops visit them
AllFields(sections) ==
    IF sections = <<>> THEN <<>>
    ELSE Head(sections).fields \o AllFields(Tail(sections))

\* `field.value and field.value.strip()`
IsFilled(f) == f.value.kind = "str" /\ f.value.s \notin WhitespaceOnly

RECURSIVE ValidationErrors(_)
\* one message per required field that is not filled, in field order
ValidationErrors(fields) ==
    IF fields = <<>> THEN <<>>
    ELSE (IF ~IsFilled(Head(fields)) /\ Head(fields).is_required
          THEN <<"Required field '" \o Head(fields).field_name \o "' is empty">>
          ELSE <<>>)
         \o ValidationErrors(Tail(fields))

\* _validate_form
validate_form_required_only(form) ==
    LET fields == AllFields(form.sections)
        required == {i \in 1..Len(fields) : fields[i].is_required}
        completed_fields == Cardinality({i \in required : IsFilled(fields[i])})
        validation_errors == ValidationErrors(fields)
    IN  [form EXCEPT !.completion_percentage = Pct(completed_fields, Cardinality(required)),
                     !.is_valid = (Len(validation_errors) = 0),
                     !.validation_errors = validation_errors]

validate_form(form) ==
    LET fields == AllFields(form.sections)
        total_fields == Len(fields)
        completed_fields == Cardinality({i \in 1..Len(fields) : IsFilled(fields[i])})
        validation_errors == ValidationErrors(fields)
    IN  [form EXCEPT !.completion_percentage = Pct(completed_fields, total_fields),
                     !.is_valid = (Len(validation_errors) = 0),
                     !.validation_errors = validation_errors]

\* auto_fill_form
auto_fill_form(form_type, questionnaire_responses) ==
    LET form == get_form_template(form_type)
        filled ==
            CASE form_type = IMM1294 -> ApplyMappings(form, Imm1294Mappings(questionnaire_responses))
              [] form_type = IMM5645 -> ApplyMappings(form, Imm5645Mappings(questionnaire_responses))
              [] form_type = IMM5257 -> ApplyMappings(form, Imm5257Mappings(questionnaire_responses))
    IN  validate_form(filled)

trv_required_countries == {"IND", "CHN", "PAK", "BGD", "NGA"}

\* _needs_trv
needs_trv(responses) ==
    LET passport_country == Get(Section(responses, "basic_info"), "passport_country_code")
    IN  passport_country.kind = "str" /\ passport_country.s \in trv_required_countries

\* generate_all_forms
generate_all_forms(questionnaire_responses) ==
    LET types == {IMM1294, IMM5645}
                 \cup (IF needs_trv(questionnaire_responses) THEN {IMM5257} ELSE {})
    IN  [t \in types |-> auto_fill_form(t, questionnaire_responses)]

\* export_form_to_pdf_data
export_form_to_pdf_data(form) ==
    [form_type |-> form.form_type,
     form_title |-> form.form_title,
     form_version |-> form.form_version,
     generated_at |-> form.generated_at,
     completion_percentage |-> form.completion_percentage,
     is_valid |-> form.is_valid,
     validation_errors |-> form.validation_errors,
     sections |->
        [i \in 1..Len(form.sections) |->
            [section_id |-> form.sections[i].section_id,
             fields |->
                [j \in 1..Len(form.sections[i].fields) |->
                    LET f == form.sections[i].fields[j]
                    IN  [field_id |-> f.field_id,
                         field_name |-> f.field_name,
                         value |-> IF Truthy(f.value) THEN f.value.s ELSE "",
                         is_required |-> f.is_required]]]]]

-----------------------------------------------------------------------------
(* Wizard helpers (wizard.py) *)

\* create_document_checklist: (document type, is_required) per item
create_document_checklist ==
    [application_forms |-> << <<"imm1294", TRUE>>, <<"imm5645", TRUE>> >>,
     supporting_documents |->
        << <<"education_transcript", TRUE>>, <<"gic_proof", TRUE>>,
           <<"tuition_payment", TRUE>>, <<"ielts_results", TRUE>>,
           <<"acceptance_letter", TRUE>>, <<"passport", TRUE>>,
           <<"pal_tal", TRUE>>, <<"digital_photo", TRUE>>,
           <<"medical_exam", TRUE>> >>,
     optional_documents |-> << <<"imm5257", FALSE>>, <<"client_info", FALSE>> >>]

\* the IRCCQuestionnaireResponse get_prefilled_forms builds, as .dict()
\* returns it (fields not given take the defaults of the pydantic models)
sample_responses ==
    [basic_info |->
        [purpose_in_canada |-> S("Study"),
         duration_of_stay |-> S("Temporarily - more than 6 months"),
         passport_country_code |-> S("IND"),
         current_residence |-> S("India"),
         has_canadian_family |-> B(FALSE),
         date_of_birth |-> D(2003, 5, 4)],
     education_status |->
        [has_provincial_attestation |-> B(TRUE),
         attestation_province |-> S("Ontario"),
         accepted_to_dli |-> B(TRUE),
         post_secondary_institution |-> B(TRUE),
         institution_name |-> S("University of Toronto"),
         program_name |-> S("Master of Computer Science"),
         program_duration |-> S("2 years"),
         program_start_date |-> D(2024, 9, 1)],
     financial_status |->
        [has_sds_gic |-> B(TRUE),
         tuition_paid_full |-> B(TRUE),
         gic_amount |-> N(206350),
         tuition_amount |-> N(450000),
         funding_source |-> S("Family savings and GIC")],
     language_test |->
        [has_language_test |-> B(TRUE),
         test_type |-> S("IELTS"),
         all_scores_6_plus |-> B(TRUE),
         listening_score |-> N(75),
         reading_score |-> N(70),
         writing_score |-> N(65),
         speaking_score |-> N(70),
         overall_score |-> N(70)],
     medical_exam |->
        [has_medical_exam |-> B(TRUE),
         exam_date |-> D(2024, 1, 15),
         panel_physician |-> S("Dr. Smith - Authorized Panel Physician"),
         medical_ref_number |-> S("MED123456789")],
     marital_status |-> S("Never Married/Single"),
     destination_province |-> S("Ontario"),
     has_valid_permits |-> B(FALSE),
     is_exchange_student |-> B(FALSE),
     work_essential_to_studies |-> B(FALSE),
     has_family_in_canada |-> B(FALSE),
     has_scholarship |-> B(FALSE),
     criminal_background |-> B(FALSE),
     wants_family_application |-> B(FALSE),
     giving_access_to_application |-> B(FALSE),
     has_biometrics |-> B(FALSE),
     will_pay_fees |-> B(TRUE),
     can_scan_documents |-> B(TRUE),
     pay_online |-> B(TRUE)]

RECURSIVE SumSections(_, _)
\* sum(len(form.sections) for form in forms.values())
SumSections(forms, types) ==
    IF types = {} THEN 0
    ELSE LET t == CHOOSE x \in types : TRUE
         IN  Len(forms[t].sections) + SumSections(forms, types \ {t})

\* auto_fill_forms: the forms of form_service in the response format
auto_fill_forms(responses, t) ==
    LET forms == generate_all_forms(responses)
    IN  [forms |->
            [ft \in DOMAIN forms |->
                [form_title |-> forms[ft].form_title,
                 form_version |-> forms[ft].form_version,
                 completion_percentage |-> forms[ft].completion_percentage,
                 is_valid |-> forms[ft].is_valid,
                 validation_errors |-> forms[ft].validation_errors,
                 pdf_data |-> export_form_to_pdf_data(forms[ft])]],
         total_forms |-> Cardinality(DOMAIN forms),
         prefilled_fields |-> SumSections(forms, DOMAIN forms),
         generated_at |-> t]

-----------------------------------------------------------------------------
(* The endpoints, one action per handler (Spec) *)

NoResponse == [op |-> "none"]

\* POST /start
start_wizard_session(user_id) ==
    /\ resp' = [op |-> "start",
                session_id |-> SessionIdFor(now, user_id),
                user_id |-> user_id,
                current_step |-> BASIC_INFO,
                questionnaire_responses |-> NoneVal,
                document_checklist |-> create_document_checklist,
                created_at |-> now,
                updated_at |-> now,
                is_complete |-> FALSE,
                sop_generated |-> FALSE,
                forms_prefilled |-> FALSE]
    /\ repeat' = FALSE
    /\ UNCHANGED <<session_answers_store, now, concVars, callVars, extVars>>

\* POST /questionnaire/{session_id}, with a total that adds up what was received
submit_counting_received(session_id, answers) ==
    LET store1 == EnsureSession(session_answers_store, session_id)
        store2 == UpdateSession(store1, session_id, answers)
        total_answers == Len_(store1[session_id]) + Len_(answers)
    IN  /\ session_answers_store' = store2
        /\ resp' = [op |-> "submit",
                    session_id |-> session_id,
                    answers_received |-> Len_(answers),
                    total_answers_stored |-> total_answers,
                    answers |-> answers,
                    status |-> "success"]
        /\ repeat' = (/\ resp.op = "submit"
                      /\ resp.session_id = session_id
                      /\ resp.answers = answers)
        /\ UNCHANGED <<now, concVars, callVars, extVars>>

\* POST /questionnaire/{session_id}
submit_questionnaire_answers(session_id, answers) ==
    LET store1 == EnsureSession(session_answers_store, session_id)
        store2 == UpdateSession(store1, session_id, answers)
        total_answers == Len_(store2[session_id])
    IN  /\ session_answers_store' = store2
        /\ resp' = [op |-> "submit",
                    session_id |-> session_id,
                    answers_received |-> Len_(answers),
                    total_answers_stored |-> total_answers,
                    answers |-> answers,
                    status |-> "success"]
        /\ repeat' = (/\ resp.op = "submit"
                      /\ resp.session_id = session_id
                      /\ resp.answers = answers)
        /\ UNCHANGED <<now, concVars, callVars, extVars>>

\* GET /questionnaire/{session_id}/answers, creating the entry it looks up
get_saved_answers_setdefault(session_id) ==
    /\ session_answers_store' = EnsureSession(session_answers_store, session_id)
    /\ resp' = [op |-> "answers",
                session_id |-> session_id,
                total_answers |-> Len_(StoredAnswers(session_answers_store, session_id)),
                answers |-> StoredAnswers(session_answers_store, session_id)]
    /\ repeat' = FALSE
    /\ UNCHANGED <<now, concVars, callVars, extVars>>

\* GET /questionnaire/{session_id}/answers
get_saved_answers(session_id) ==
    /\ resp' =
         IF session_id \notin DOMAIN session_answers_store
         THEN [op |-> "answers",
               session_id |-> session_id,
               total_answers |-> 0,
               answers |-> EmptyMap]
         ELSE LET stored_answers == session_answers_store[session_id]
              IN  [op |-> "answers",
                   session_id |-> session_id,
                   total_answers |-> Len_(stored_answers),
                   answers |-> stored_answers]
    /\ repeat' = FALSE
    /\ UNCHANGED <<session_answers_store, now, concVars, callVars, extVars>>

\* GET /debug/all-sessions
debug_all_sessions ==
    /\ resp' = [op |-> "debug",
                total_sessions |-> Cardinality(DOMAIN session_answers_store),
                sessions |->
                    [s \in DOMAIN session_answers_store |->
                        [total_answers |-> Len_(session_answers_store[s]),
                         answers |-> session_answers_store[s]]]]
    /\ repeat' = FALSE
    /\ UNCHANGED <<session_answers_store, now, concVars, callVars, extVars>>

\* GET /document-checklist/{session_id}
get_document_checklist(session_id) ==
    /\ resp' = [op |-> "checklist",
                session_id |-> session_id,
                checklist |-> create_document_checklist]
    /\ repeat' = FALSE
    /\ UNCHANGED <<session_answers_store, now, concVars, callVars, extVars>>

\* get_prefilled_forms: prefilled_data, per time of the request (the sample
\* responses are fixed, so only generated_at varies)
prefilled_data == [t \in 0..MaxClock |-> auto_fill_forms(sample_responses, t)]

\* GET /prefilled-forms/{session_id}
get_prefilled_forms(session_id) ==
    /\ resp' = [op |-> "forms",
                session_id |-> session_id,
                prefilled_forms |-> prefilled_data[now],
                prefilled_at |-> now]
    /\ repeat' = FALSE
    /\ UNCHANGED <<session_answers_store, now, concVars, callVars, extVars>>

\* GET /tree/{session_id}
get_wizard_tree(session_id) ==
    /\ resp' = WizardTree(session_answers_store, session_id)
    /\ repeat' = FALSE
    /\ UNCHANGED <<session_answers_store, now, concVars, callVars, extVars>>

\* a second passes on the server's clock
Tick ==
    /\ now < MaxClock
    /\ now' = now + 1
    /\ UNCHANGED <<session_answers_store, resp, repeat, concVars, callVars, extVars>>

-----------------------------------------------------------------------------
(* SpecConc: the same handlers as tasks of the event loop.  A task holds   *)
(* the loop from the step it starts with until it reaches an await or      *)
(* returns.                                                                *)

Submitters == {"submit1", "submit2"}
Readers == {"reader"}
Tasks == Submitters \cup Readers

NoArgs == [session_id |-> "", answers |-> EmptyMap]


\* the positions at which a handler awaits and gives the loop to another
\* task: submit_questionnaire_answers and get_saved_answers have none
AwaitPointsInUpdate == {"update"}

AwaitPoints == {}

\* the loop runs task t: it is running it already, or it is free and t is
\* a new request or a task suspended at an await
CanRun(t) ==
    \/ loop = t
    \/ loop = "free" /\ pc[t] \in {"pending"} \cup AwaitPoints

\* who holds the loop after task t moved to position p
LoopAfter(t, p) == IF p \in AwaitPoints \cup {"done"} THEN "free" ELSE t

\* wizard.py:251-252
SubmitEnsure(t) ==
    /\ t \in Submitters
    /\ pc[t] = "pending"
    /\ CanRun(t)
    /\ session_answers_store' = EnsureSession(session_answers_store, args[t].session_id)
    /\ remaining' = [remaining EXCEPT ![t] = DOMAIN args[t].answers]
    /\ pc' = [pc EXCEPT ![t] = "update"]
    /\ loop' = LoopAfter(t, "update")
    /\ UNCHANGED <<now, resp, repeat, args, base, observed, callVars, extVars>>

\* wizard.py:255, dict.update copying one key of the request body
SubmitUpdate(t) ==
    /\ t \in Submitters
    /\ pc[t] = "update"
    /\ CanRun(t)
    /\ \E k \in remaining[t] :
        /\ session_answers_store' =
             UpdateSession(session_answers_store, args[t].session_id,
                           [x \in {k} |-> args[t].answers[k]])
        /\ remaining' = [remaining EXCEPT ![t] = @ \ {k}]
    /\ pc' = pc
    /\ loop' = LoopAfter(t, "update")
    /\ UNCHANGED <<now, resp, repeat, args, base, observed, callVars, extVars>>

\* wizard.py:257-269
SubmitRespond(t) ==
    /\ t \in Submitters
    /\ pc[t] = "update"
    /\ remaining[t] = {}
    /\ CanRun(t)
    /\ observed' = [observed EXCEPT ![t] =
            [op |-> "submit",
             session_id |-> args[t].session_id,
             answers_received |-> Len_(args[t].answers),
             total_answers_stored |-> Len_(session_answers_store[args[t].session_id]),
             answers |-> args[t].answers,
             status |-> "success"]]
    /\ pc' = [pc EXCEPT ![t] = "done"]
    /\ loop' = LoopAfter(t, "done")
    /\ UNCHANGED <<session_answers_store, now, resp, repeat, args, remaining, base, callVars, extVars>>

\* wizard.py:283-289
ReadCheck(t) ==
    /\ t \in Readers
    /\ pc[t] = "pending"
    /\ CanRun(t)
    /\ IF args[t].session_id \notin DOMAIN session_answers_store
       THEN /\ observed' = [observed EXCEPT ![t] =
                    [op |-> "answers",
                     session_id |-> args[t].session_id,
                     total_answers |-> 0,
                     answers |-> EmptyMap]]
            /\ pc' = [pc EXCEPT ![t] = "done"]
            /\ loop' = LoopAfter(t, "done")
       ELSE /\ observed' = observed
            /\ pc' = [pc EXCEPT ![t] = "read"]
            /\ loop' = LoopAfter(t, "read")
    /\ UNCHANGED <<session_answers_store, now, resp, repeat, args, remaining, base, callVars, extVars>>

\* wizard.py:291-298
ReadReturn(t) ==
    /\ t \in Readers
    /\ pc[t] = "read"
    /\ CanRun(t)
    /\ LET stored_answers == session_answers_store[args[t].session_id]
       IN  observed' = [observed EXCEPT ![t] =
                [op |-> "answers",
                 session_id |-> args[t].session_id,
                 total_answers |-> Len_(stored_answers),
                 answers |-> stored_answers]]
    /\ pc' = [pc EXCEPT ![t] = "done"]
    /\ loop' = LoopAfter(t, "done")
    /\ UNCHANGED <<session_answers_store, now, resp, repeat, args, remaining, base, callVars, extVars>>

-----------------------------------------------------------------------------
(* Lambda events.  A Lambda function is a pure function of its event; the  *)
(* specifications SpecElig, SpecForms and SpecOcr draw an event in their   *)
(* initial state and apply the function to it once.                        *)

\* no function has been called
NoEvent == [fn |-> "none"]

\* the choice of leaving a key out of a dict
Absent == [kind |-> "absent"]

\* the dict that holds the keys of r whose choice is not Absent
Dict(r) == [k \in {x \in DOMAIN r : r[x] # Absent} |-> r[k]]

\* a dict as a value of the event
DictVal(d) == [kind |-> "dict", items |-> d]

\* isinstance(v, dict): v has a .get method
IsDict(v) == v.kind = "dict"

-----------------------------------------------------------------------------
(* Eligibility check (src/src/lambdas/eligibility_check.py) *)

\* the keys of requirements, in the order the dict is built
RequirementNames ==
    <<"acceptance_letter", "financial_proof", "language_test", "medical_exam",
      "clean_criminal_record", "valid_passport", "provincial_attestation">>

\* max_score = len(requirements)
max_score == Len(RequirementNames)

AcceptanceLetter(answers, ocr_data) ==
    Truthy(Get(answers, "accepted_to_dli")) \/ Truthy(Get(ocr_data, "institution_name"))

FinancialProofFromWizardKeys(answers, ocr_data) ==
    \/ Truthy(Get(answers, "has_sds_gic")) \/ Truthy(Get(answers, "tuition_paid_full"))
    \/ Truthy(Get(ocr_data, "gic_amount")) \/ Truthy(Get(ocr_data, "tuition_amount"))

FinancialProof(answers, ocr_data) ==
    \/ Truthy(Get(answers, "has_gic")) \/ Truthy(Get(answers, "tuition_paid"))
    \/ Truthy(Get(ocr_data, "gic_amount")) \/ Truthy(Get(ocr_data, "tuition_amount"))

LanguageTest(answers, ocr_data) ==
    \/ Truthy(Get(answers, "has_language_test")) \/ Truthy(Get(answers, "all_scores_6_plus"))
    \/ Truthy(Get(ocr_data, "ielts_scores"))

MedicalExam(answers, ocr_data) == Truthy(Get(answers, "has_medical_exam"))

\* not answers.get('criminal_background', True)
CleanCriminalRecord(answers, ocr_data) ==
    ~Truthy(GetOr(answers, "criminal_background", B(TRUE)))

ValidPassport(answers, ocr_data) ==
    Truthy(Get(answers, "passport_country_code")) \/ Truthy(Get(ocr_data, "passport_number"))

ProvincialAttestation(answers, ocr_data) ==
    Truthy(Get(answers, "has_provincial_attestation"))

\* requirements[req] after the seven checks
RequirementMet(req, answers, ocr_data) ==
    CASE req = "acceptance_letter" -> AcceptanceLetter(answers, ocr_data)
      [] req = "financial_proof" -> FinancialProof(answers, ocr_data)
      [] req = "language_test" -> LanguageTest(answers, ocr_data)
      [] req = "medical_exam" -> MedicalExam(answers, ocr_data)
      [] req = "clean_criminal_record" -> CleanCriminalRecord(answers, ocr_data)
      [] req = "valid_passport" -> ValidPassport(answers, ocr_data)
      [] req = "provincial_attestation" -> ProvincialAttestation(answers, ocr_data)

\* eligible = score >= 6
EligibleAtFive(score) == score >= 5

Eligible(score) == score >= 6

\* the recommendation appended for a missing requirement
Recommendation(req) ==
    CASE req = "acceptance_letter" ->
            "Obtain an acceptance letter from a designated learning institution (DLI)"
      [] req = "financial_proof" ->
            "Provide proof of financial support (GIC, tuition payment, bank statements)"
      [] req = "language_test" ->
            "Take an approved language test (IELTS, CELPIP, TEF, or TCF)"
      [] req = "medical_exam" ->
            "Complete an upfront medical exam with an IRCC panel physician"
      [] req = "clean_criminal_record" ->
            "Obtain a police certificate from your country of residence"
      [] req = "valid_passport" ->
            "Ensure you have a valid passport with at least 6 months validity"
      [] req = "provincial_attestation" ->
            "Obtain a Provincial or Territorial Attestation Letter (PAL/TAL)"

\* one recommendation per missing requirement, in the order of the seven ifs,
\* which is the order of missing_requirements
\* only the first missing requirement gets a recommendation
generate_recommendations_first_only(missing_requirements, answers) ==
    [i \in 1..(IF Len(missing_requirements) > 0 THEN 1 ELSE 0) |->
        Recommendation(missing_requirements[i])]

generate_recommendations(missing_requirements, answers) ==
    [i \in 1..Len(missing_requirements) |-> Recommendation(missing_requirements[i])]

check_study_permit_eligibility(answers, ocr_data) ==
    LET met(req) == RequirementMet(req, answers, ocr_data)
        requirements_met == SelectSeq(RequirementNames, met)
        requirements_missing == SelectSeq(RequirementNames, LAMBDA req : ~met(req))
        score == Len(requirements_met)
    IN  [eligible |-> Eligible(score),
         score |-> Pct(score, max_score),
         requirements_met |-> requirements_met,
         requirements_missing |-> requirements_missing,
         recommendations |-> generate_recommendations(requirements_missing, answers)]

\* event.get(key, {})
EventGet(ev, key) == IF ev[key] = Absent THEN DictVal(EmptyMap) ELSE ev[key]

\* lambda_handler of eligibility_check.py: answers.get raises AttributeError
\* when answers is not a dict, and the handler catches every exception
eligibility_check_lambda_handler(ev, t) ==
    LET answers == EventGet(ev, "answers")
        ocr_data == EventGet(ev, "ocr_data")
    IN  IF IsDict(answers) /\ IsDict(ocr_data)
        THEN LET eligibility_result ==
                    check_study_permit_eligibility(answers.items, ocr_data.items)
             IN  [op |-> "eligibility_check",
                  statusCode |-> 200,
                  eligible |-> eligibility_result.eligible,
                  eligibility_score |-> eligibility_result.score,
                  requirements_met |-> eligibility_result.requirements_met,
                  requirements_missing |-> eligibility_result.requirements_missing,
                  recommendations |-> eligibility_result.recommendations,
                  checked_at |-> t]
        ELSE [op |-> "eligibility_check",
              statusCode |-> 500,
              eligible |-> FALSE,
              error |-> "'NoneType' object has no attribute 'get'"]

\* the answers of the end-to-end scenario of the questionnaire: the question
\* ids are those of the wizard
ScenarioAnswers ==
    [passport_country_code |-> S("IND"),
     has_sds_gic |-> B(TRUE),
     gic_amount |-> N(206350),
     has_language_test |-> B(TRUE),
     overall_score |-> N(70),
     has_medical_exam |-> B(TRUE),
     has_provincial_attestation |-> B(TRUE),
     criminal_background |-> B(FALSE)]

\* answers of an event: each key the checks read is left out or given, and
\* criminal_background takes every kind of value a JSON body can carry
EligibilityAnswers ==
    {Dict(r) : r \in
        [accepted_to_dli : {Absent, B(TRUE)},
         has_gic : {Absent, B(TRUE)},
         has_sds_gic : {Absent, B(TRUE)},
         has_language_test : {Absent, B(TRUE)},
         has_medical_exam : {Absent, B(FALSE), B(TRUE)},
         criminal_background :
            {Absent, B(TRUE), B(FALSE), NoneVal, S(""), S("no"), N(0)},
         passport_country_code : {Absent, S("IND")},
         has_provincial_attestation : {Absent, B(TRUE)}]}
    \cup {ScenarioAnswers}

\* the OCR data of an event
EligibilityOcrData ==
    {Dict(r) : r \in
        [institution_name : {Absent, S("University of Toronto")},
         gic_amount : {Absent, N(206350)},
         passport_number : {Absent, S("A1234567")}]}

\* events of the eligibility check; answers may be missing or null
EligibilityEvents ==
    {[fn |-> "eligibility_check", answers |-> DictVal(a), ocr_data |-> DictVal(o)] :
        a \in EligibilityAnswers, o \in EligibilityOcrData}
    \cup {[fn |-> "eligibility_check", answers |-> a, ocr_data |-> DictVal(EmptyMap)] :
            a \in {Absent, NoneVal}}

\* the Lambda function is invoked with the event
CheckEligibility ==
    /\ event.fn = "eligibility_check"
    /\ result = NoResponse
    /\ result' = eligibility_check_lambda_handler(event, now)
    /\ UNCHANGED <<event, wizardVars, concVars, extVars>>

-----------------------------------------------------------------------------
(* Failures of the form service (form_service.py) and of the wizard's      *)
(* auto_fill_forms (wizard.py)                                             *)

\* the sections a form's auto-fill calls .get on
SectionsRead(form_type) ==
    CASE form_type = IMM1294 ->
            {"basic_info", "education_status", "financial_status", "medical_exam"}
      [] form_type = IMM5645 -> {"basic_info"}
      [] form_type = IMM5257 -> {"basic_info", "education_status"}

\* the exception auto_fill_form re-raises, or "" when it returns a form.
\* An unknown form type fails the template lookup with KeyError, and the
\* except block then evaluates form_type.value on the string: AttributeError.
\* A section that is present but not a dict has no .get: AttributeError.
auto_fill_form_raises(form_type, questionnaire_responses) ==
    IF form_type \notin FormTypes THEN "AttributeError"
    ELSE IF \E name \in SectionsRead(form_type) :
                Section(questionnaire_responses, name) = NoneVal
         THEN "AttributeError"
         ELSE ""

\* the exception generate_all_forms lets through, or ""
generate_all_forms_raises(questionnaire_responses) ==
    IF \E t \in {IMM1294, IMM5645} :
            auto_fill_form_raises(t, questionnaire_responses) # ""
    THEN "AttributeError"
    ELSE IF needs_trv(questionnaire_responses)
            /\ auto_fill_form_raises(IMM5257, questionnaire_responses) # ""
         THEN "AttributeError"
         ELSE ""

\* the except branch of auto_fill_forms: the fallback response
auto_fill_forms_fallback(e) ==
    [forms |->
        [IMM1294 |-> [form_title |-> "Study Permit Application",
                      completion_percentage |-> Pct(0, 0)],
         IMM5645 |-> [form_title |-> "Family Information",
                      completion_percentage |-> Pct(0, 0)]],
     error |-> "Form auto-fill failed: " \o e]

\* str(e) of the AttributeError a missing .get raises
NoGetMessage == "'NoneType' object has no attribute 'get'"

-----------------------------------------------------------------------------
(* Form fill (src/src/lambdas/form_fill.py) *)

\* str.upper() of a country code
Upper(s) ==
    CASE s = "ind" -> "IND"
      [] s = "npl" -> "NPL"
      [] OTHER -> s

\* json.dumps(v) of a scalar
JsonDumps(v) ==
    CASE v.kind = "str" -> "\"" \o v.s \o "\""
      [] v.kind = "bool" -> IF v.b THEN "true" ELSE "false"
      [] v.kind = "none" -> "null"
      [] OTHER -> Str(v)

visa_required_countries == {"IND", "CHN", "PAK", "BGD", "NPL", "LKA"}

\* data.get('passport_country_code', '')
PassportCountryCode(data) == GetOr(data, "passport_country_code", S(""))

\* .upper() exists on strings only
needs_visitor_visa_raises(data) == PassportCountryCode(data).kind # "str"

needs_visitor_visa(data) ==
    Upper(PassportCountryCode(data).s) \in visa_required_countries

\* data.get(key, '')
Field(data, key) == GetOr(data, key, S(""))

generate_imm1294_form_dated(data, t) ==
    [form_type |-> IMM1294,
     form_title |-> "Application for Study Permit Made Outside Canada",
     fields |->
        [family_name |-> Field(data, "family_name"),
         given_names |-> Field(data, "given_names"),
         date_of_birth |-> Field(data, "date_of_birth"),
         country_of_birth |-> Field(data, "country_of_birth"),
         citizenship |-> Field(data, "nationality"),
         sex |-> Field(data, "sex"),
         marital_status |-> Field(data, "marital_status"),
         current_address |-> Field(data, "current_address"),
         phone_number |-> Field(data, "phone_number"),
         email |-> Field(data, "email"),
         passport_number |-> Field(data, "passport_number"),
         passport_issue_date |-> Field(data, "passport_issue_date"),
         passport_expiry_date |-> Field(data, "passport_expiry_date"),
         institution_name |-> Field(data, "institution_name"),
         program_name |-> Field(data, "program_name"),
         field_of_study |-> Field(data, "field_of_study"),
         program_start_date |-> Field(data, "program_start_date"),
         program_duration |-> Field(data, "program_duration"),
         tuition_fees |-> Field(data, "tuition_amount"),
         living_expenses |-> Field(data, "living_expenses"),
         funds_available |-> Field(data, "gic_amount"),
         language_test_type |-> Field(data, "test_type"),
         language_test_results |-> S(ToString(t))],
     completion_date |-> t,
     auto_filled |-> TRUE]

generate_imm1294_form(data, t) ==
    [form_type |-> IMM1294,
     form_title |-> "Application for Study Permit Made Outside Canada",
     fields |->
        [family_name |-> Field(data, "family_name"),
         given_names |-> Field(data, "given_names"),
         date_of_birth |-> Field(data, "date_of_birth"),
         country_of_birth |-> Field(data, "country_of_birth"),
         citizenship |-> Field(data, "nationality"),
         sex |-> Field(data, "sex"),
         marital_status |-> Field(data, "marital_status"),
         current_address |-> Field(data, "current_address"),
         phone_number |-> Field(data, "phone_number"),
         email |-> Field(data, "email"),
         passport_number |-> Field(data, "passport_number"),
         passport_issue_date |-> Field(data, "passport_issue_date"),
         passport_expiry_date |-> Field(data, "passport_expiry_date"),
         institution_name |-> Field(data, "institution_name"),
         program_name |-> Field(data, "program_name"),
         field_of_study |-> Field(data, "field_of_study"),
         program_start_date |-> Field(data, "program_start_date"),
         program_duration |-> Field(data, "program_duration"),
         tuition_fees |-> Field(data, "tuition_amount"),
         living_expenses |-> Field(data, "living_expenses"),
         funds_available |-> Field(data, "gic_amount"),
         language_test_type |-> Field(data, "test_type"),
         \* json.dumps(data.get('ielts_scores', {}))
         language_test_results |->
            IF "ielts_scores" \in DOMAIN data
            THEN S(JsonDumps(data["ielts_scores"])) ELSE S("{}")],
     completion_date |-> t,
     auto_filled |-> TRUE]

generate_imm5645_form(data, t) ==
    [form_type |-> IMM5645,
     form_title |-> "Family Information",
     fields |->
        [applicant_name |->
            S(Str(Field(data, "given_names")) \o " " \o Str(Field(data, "family_name"))),
         applicant_date_of_birth |-> Field(data, "date_of_birth"),
         spouse_name |-> Field(data, "spouse_name"),
         spouse_date_of_birth |-> Field(data, "spouse_date_of_birth"),
         children_count |-> GetOr(data, "children_count", N(0)),
         father_name |-> Field(data, "father_name"),
         father_date_of_birth |-> Field(data, "father_date_of_birth"),
         mother_name |-> Field(data, "mother_name"),
         mother_date_of_birth |-> Field(data, "mother_date_of_birth")],
     completion_date |-> t,
     auto_filled |-> TRUE]

generate_imm5257_form(data, t) ==
    [form_type |-> IMM5257,
     form_title |-> "Application for Temporary Resident Visa",
     fields |->
        [family_name |-> Field(data, "family_name"),
         given_names |-> Field(data, "given_names"),
         date_of_birth |-> Field(data, "date_of_birth"),
         citizenship |-> Field(data, "nationality"),
         purpose_of_visit |-> S("Study"),
         duration_of_stay |-> Field(data, "program_duration"),
         current_address |-> Field(data, "current_address"),
         phone_number |-> Field(data, "phone_number"),
         email |-> Field(data, "email")],
     completion_date |-> t,
     auto_filled |-> TRUE]

RECURSIVE SumOver(_, _)
\* sum(f[x] for x in xs)
SumOver(f, xs) ==
    IF xs = {} THEN 0
    ELSE LET x == CHOOSE y \in xs : TRUE
         IN  f[x] + SumOver(f, xs \ {x})

\* BUCKET_DRAFTS.split('/')[0]
bucket_name == "visamate-documents"

\* generate_application_forms; put_object fails for the form types in failing.
\* put_objects is what the invocation has stored in the bucket.
generate_application_forms(user_id, session_id, answers, ocr_data, t, failing) ==
    LET merged_data == DictUpdate(answers, ocr_data)
        types == {IMM1294, IMM5645}
                 \cup (IF needs_visitor_visa(merged_data) THEN {IMM5257} ELSE {})
        forms == [ft \in types |->
                    CASE ft = IMM1294 -> generate_imm1294_form(merged_data, t)
                      [] ft = IMM5645 -> generate_imm5645_form(merged_data, t)
                      [] ft = IMM5257 -> generate_imm5257_form(merged_data, t)]
        s3_key(ft) == "drafts/" \o user_id \o "/" \o session_id \o "/" \o ft
                        \o "_" \o ToString(t) \o ".json"
        forms_urls == [ft \in types \ failing |->
                        "s3://" \o bucket_name \o "/" \o s3_key(ft)]
        total_fields == SumOver([ft \in types |-> Len_(forms[ft].fields)], types)
        filled_fields ==
            SumOver([ft \in types |->
                        Cardinality({k \in DOMAIN forms[ft].fields :
                                        Truthy(forms[ft].fields[k])})], types)
    IN  [forms_count |-> Cardinality(types),
         forms_urls |-> forms_urls,
         completion_percentage |-> Pct(filled_fields, total_fields),
         total_fields |-> total_fields,
         filled_fields |-> filled_fields,
         put_objects |-> [ft \in types \ failing |-> forms[ft]]]

\* every applicant is taken to be eligible
eligible_ignoring_event(ev) == B(TRUE)

\* eligible = event.get('eligibility', True)
eligible(ev) == IF ev.eligibility = Absent THEN B(TRUE) ELSE ev.eligibility

\* lambda_handler of form_fill.py
form_fill_lambda_handler(ev, t, failing) ==
    LET answers == EventGet(ev, "answers")
        ocr_data == EventGet(ev, "ocr_data")
    IN  IF ~Truthy(eligible(ev))
        THEN [op |-> "form_fill",
              statusCode |-> 400,
              success |-> FALSE,
              message |-> "User is not eligible for visa application",
              put_objects |-> EmptyMap]
        ELSE IF ~IsDict(answers) \/ ~IsDict(ocr_data)
        THEN [op |-> "form_fill", statusCode |-> 500, success |-> FALSE,
              error |-> "'NoneType' object is not a mapping",
              put_objects |-> EmptyMap]
        ELSE IF needs_visitor_visa_raises(DictUpdate(answers.items, ocr_data.items))
        THEN [op |-> "form_fill", statusCode |-> 500, success |-> FALSE,
              error |-> "'NoneType' object has no attribute 'upper'",
              put_objects |-> EmptyMap]
        ELSE LET forms_result ==
                    generate_application_forms(ev.user_id, ev.session_id,
                        answers.items, ocr_data.items, t, failing)
             IN  [op |-> "form_fill",
                  statusCode |-> 200,
                  success |-> TRUE,
                  forms_generated |-> forms_result.forms_count,
                  forms_urls |-> forms_result.forms_urls,
                  completion_percentage |-> forms_result.completion_percentage,
                  generated_at |-> t,
                  put_objects |-> forms_result.put_objects]

-----------------------------------------------------------------------------
(* Inputs of the form functions *)

MaxTestFields == 2

\* passport country codes: the ones either list names, two visa-exempt ones
CountryCodes == {"IND", "CHN", "PAK", "BGD", "NPL", "LKA", "NGA", "CAN", "USA"}

\* questionnaire responses that differ in the passport country only
CountryResponses ==
    {[basic_info |-> [passport_country_code |-> S(c)]] : c \in CountryCodes}

\* questionnaire responses: each value the mappings read is left out, given,
\* or given empty / blank / zero
FillResponses ==
    {Dict([basic_info |->
                Dict([passport_country_code |-> r.passport_country_code,
                      date_of_birth |-> r.date_of_birth,
                      current_residence |-> r.current_residence]),
           financial_status |-> Dict([gic_amount |-> r.gic_amount]),
           medical_exam |-> Dict([has_medical_exam |-> r.has_medical_exam]),
           marital_status |-> r.marital_status]) : r \in
        [passport_country_code : {Absent, S("IND")},
         date_of_birth : {Absent, D(2003, 5, 4)},
         current_residence : {Absent, S("India"), S(" ")},
         gic_amount : {Absent, N(206350), N(0)},
         has_medical_exam : {Absent, B(TRUE)},
         marital_status : {Absent, S("Married"), S("Never Married/Single"), S(""), S(" ")}]}

\* responses of the wrong shape: unknown keys only; a section that is null
MalformedResponses == {[invalid |-> S("data")], [basic_info |-> NoneVal]}

FormResponses == CountryResponses \cup FillResponses \cup MalformedResponses

\* a field of a hand-built form
TestField(field_id, is_required, value) ==
    [FormField(field_id, field_id, is_required) EXCEPT !.value = value]

TestFields ==
    {TestField(IF req THEN "required" ELSE "optional", req, v) :
        req \in BOOLEAN, v \in {NoneVal, S(""), S(" "), S("test")}}

\* hand-built forms: no section at all, or one section of up to MaxTestFields
\* fields, and the form of test_form_validation
TestForms ==
    {IRCCForm(IMM1294, "Test Form", "1.0", <<>>)}
    \cup {IRCCForm(IMM1294, "Test Form", "1.0",
                <<[section_id |-> "test_section", fields |-> fs]>>) :
            fs \in UNION {[1..n -> TestFields] : n \in 0..MaxTestFields}}
    \cup {IRCCForm(IMM1294, "Test Form", "1.0",
                <<[section_id |-> "test_section", fields |->
                    <<TestField("Required Filled", TRUE, S("test")),
                      TestField("Required Empty", TRUE, S("")),
                      TestField("Optional Empty", FALSE, S(""))>>]>>)}

\* answers of a form fill event
FormFillAnswers ==
    {Dict(r) : r \in
        [passport_country_code :
            {Absent, NoneVal, S("ind")} \cup {S(c) : c \in CountryCodes},
         given_names : {Absent, S("Asha")},
         gic_amount : {Absent, N(206350), N(0)}]}

\* OCR data of a form fill event: none, a field the answers do not have, a
\* field the answers have too
FormFillOcrData ==
    {EmptyMap, [passport_number |-> S("A1234567")], [given_names |-> S("ASHA KUMARI")]}

FormEvents ==
    {[fn |-> "auto_fill_form", form_type |-> t, responses |-> r] :
        t \in FormTypes, r \in FormResponses}
    \cup {[fn |-> "auto_fill_form", form_type |-> "INVALID_FORM", responses |-> EmptyMap]}
    \cup {[fn |-> "generate_all_forms", responses |-> r] : r \in FormResponses}
    \cup {[fn |-> "auto_fill_forms", responses |-> r] : r \in FormResponses}
    \cup {[fn |-> "validate_form", form |-> f] : f \in TestForms}
    \cup {[fn |-> "form_fill", user_id |-> "u1", session_id |-> "s1",
           answers |-> DictVal(a), ocr_data |-> DictVal(o), eligibility |-> e] :
            a \in FormFillAnswers, o \in FormFillOcrData,
            e \in {Absent, B(FALSE), B(TRUE)}}
    \cup {[fn |-> "form_fill", user_id |-> "u1", session_id |-> "s1",
           answers |-> NoneVal, ocr_data |-> Absent, eligibility |-> Absent]}

-----------------------------------------------------------------------------
(* Calls of the form functions (SpecForms).  A function may be called      *)
(* again on the same event at a later time; repeat records that it was.    *)

\* await form_service.auto_fill_form(form_type, questionnaire_responses)
CallAutoFillForm ==
    /\ event.fn = "auto_fill_form"
    /\ LET e == auto_fill_form_raises(event.form_type, event.responses)
       IN  result' = IF e # ""
                     THEN [op |-> "auto_fill_form", raised |-> e]
                     ELSE [op |-> "auto_fill_form", raised |-> "",
                           form |-> auto_fill_form(event.form_type, event.responses)]
    /\ repeat' = (result # NoResponse)
    /\ UNCHANGED <<event, session_answers_store, now, resp, concVars, extVars>>

\* await form_service.generate_all_forms(questionnaire_responses)
CallGenerateAllForms ==
    /\ event.fn = "generate_all_forms"
    /\ LET e == generate_all_forms_raises(event.responses)
       IN  result' = IF e # ""
                     THEN [op |-> "generate_all_forms", raised |-> e]
                     ELSE [op |-> "generate_all_forms", raised |-> "",
                           forms |-> generate_all_forms(event.responses)]
    /\ repeat' = (result # NoResponse)
    /\ UNCHANGED <<event, session_answers_store, now, resp, concVars, extVars>>

\* form_service._validate_form(form)
CallValidateForm ==
    /\ event.fn = "validate_form"
    /\ result' = [op |-> "validate_form", form |-> validate_form(event.form)]
    /\ repeat' = (result # NoResponse)
    /\ UNCHANGED <<event, session_answers_store, now, resp, concVars, extVars>>

\* await auto_fill_forms(responses) of wizard.py, try and except
CallAutoFillForms ==
    /\ event.fn = "auto_fill_forms"
    /\ LET e == generate_all_forms_raises(event.responses)
       IN  result' = IF e # ""
                     THEN [op |-> "auto_fill_forms", failed |-> TRUE,
                           value |-> auto_fill_forms_fallback(NoGetMessage)]
                     ELSE [op |-> "auto_fill_forms", failed |-> FALSE,
                           value |-> auto_fill_forms(event.responses, now)]
    /\ repeat' = (result # NoResponse)
    /\ UNCHANGED <<event, session_answers_store, now, resp, concVars, extVars>>

\* the form fill Lambda is invoked; put_object fails for the types in failing
FillForms(failing) ==
    /\ event.fn = "form_fill"
    /\ result' = form_fill_lambda_handler(event, now, failing)
    /\ repeat' = (result # NoResponse)
    /\ UNCHANGED <<event, session_answers_store, now, resp, concVars, extVars>>

-----------------------------------------------------------------------------
(* OCR field mapping (src/src/lambdas/ocr_handler.py).  The text of the    *)
(* document is held as what each extractor's regular expressions find in   *)
(* it: NoneVal where no pattern matches.  form_data is the key-value pairs *)
(* of the document.                                                        *)

\* the keys of form_data in the events, and the extractors whose key test
\* (`word in key.lower()`) each one passes
KeyMatches ==
    [passport_number |-> {"Passport Number"},
     full_name |-> {"Name"},
     date_of_birth |-> {"Date of Birth"},
     nationality |-> {"Nationality"},
     institution_name |-> {"University"},
     program_name |-> {"Program"}]

\* len(value.split()) of the names in the events
WordCount(s) ==
    CASE s = "asha rao" -> 2
      [] s = "" -> 0
      [] OTHER -> 1

\* value.title() of the names in the events
Title(s) ==
    CASE s = "asha rao" -> "Asha Rao"
      [] s = "asha" -> "Asha"
      [] OTHER -> s

\* `for key, value in form_data.items(): if <key test>: return value`, then
\* the patterns on the text
FromFormDataOrText(field, text, form_data) ==
    IF \E k \in DOMAIN form_data : k \in KeyMatches[field]
    THEN form_data[CHOOSE k \in DOMAIN form_data : k \in KeyMatches[field]]
    ELSE text[field]

extract_passport_number(text, form_data) ==
    FromFormDataOrText("passport_number", text, form_data)

\* value.split() raises AttributeError when value is not a string
extract_full_name_raises(text, form_data) ==
    \E k \in DOMAIN form_data :
        k \in KeyMatches["full_name"] /\ form_data[k].kind # "str"

extract_full_name(text, form_data) ==
    IF \E k \in DOMAIN form_data :
            k \in KeyMatches["full_name"] /\ WordCount(form_data[k].s) >= 2
    THEN LET k == CHOOSE x \in DOMAIN form_data :
                    x \in KeyMatches["full_name"] /\ WordCount(form_data[x].s) >= 2
         IN  S(Title(form_data[k].s))
    ELSE text["full_name"]

extract_date_of_birth(text, form_data) ==
    FromFormDataOrText("date_of_birth", text, form_data)

extract_nationality(text, form_data) ==
    FromFormDataOrText("nationality", text, form_data)

extract_ielts_scores(text, form_data) == text["ielts_scores"]

extract_institution_name(text, form_data) ==
    FromFormDataOrText("institution_name", text, form_data)

\* form data only
extract_program_name(text, form_data) ==
    IF \E k \in DOMAIN form_data : k \in KeyMatches["program_name"]
    THEN form_data[CHOOSE k \in DOMAIN form_data : k \in KeyMatches["program_name"]]
    ELSE NoneVal

extract_gic_amount(text, form_data) == text["gic_amount"]

extract_tuition_amount(text, form_data) == text["tuition_amount"]

\* field_mappings of map_ocr_to_questionnaire_fields
OcrFieldMappings(text, form_data) ==
    [passport_number |-> extract_passport_number(text, form_data),
     full_name |-> extract_full_name(text, form_data),
     date_of_birth |-> extract_date_of_birth(text, form_data),
     nationality |-> extract_nationality(text, form_data),
     ielts_scores |-> extract_ielts_scores(text, form_data),
     institution_name |-> extract_institution_name(text, form_data),
     program_name |-> extract_program_name(text, form_data),
     gic_amount |-> extract_gic_amount(text, form_data),
     tuition_amount |-> extract_tuition_amount(text, form_data)]

\* every extractor runs while the dict literal is built, inside one try: an
\* exception in any of them leaves mapped_data empty
map_ocr_to_questionnaire_fields(ocr_result) ==
    LET text == ocr_result.text
        form_data == ocr_result.form_data
    IN  IF extract_full_name_raises(text, form_data)
        THEN EmptyMap
        ELSE LET field_mappings == OcrFieldMappings(text, form_data)
             IN  [f \in {x \in DOMAIN field_mappings : Truthy(field_mappings[x])} |->
                    field_mappings[f]]

\* what the patterns find in the text of a document
OcrTexts ==
    [passport_number : {NoneVal},
     full_name : {NoneVal, S("Asha Rao")},
     date_of_birth : {NoneVal},
     nationality : {NoneVal, S("Indian")},
     ielts_scores : {NoneVal},
     institution_name : {NoneVal},
     gic_amount : {NoneVal, N(206350)},
     tuition_amount : {NoneVal}]

\* the key-value pairs of a document; the value of Name may be a full name,
\* a single word, or not a string
OcrFormData ==
    {Dict(r) : r \in
        [Passport_Number : {Absent, S("A1234567")},
         Name : {Absent, S("asha rao"), S("asha"), NoneVal, N(50)},
         Date_of_Birth : {Absent, S("04/05/2003")},
         University : {Absent, S("University of Toronto")},
         Program : {Absent, S("Master of Computer Science")}]}

\* the keys as they are printed on the document
PrintedKey(k) ==
    CASE k = "Passport_Number" -> "Passport Number"
      [] k = "Date_of_Birth" -> "Date of Birth"
      [] OTHER -> k

OcrEvents ==
    {[fn |-> "map_ocr_to_questionnaire_fields",
      text |-> t,
      form_data |-> [k \in {PrintedKey(x) : x \in DOMAIN d} |->
                        d[CHOOSE x \in DOMAIN d : PrintedKey(x) = k]]] :
        t \in OcrTexts, d \in OcrFormData}

\* the mapper is applied to the OCR result
MapOcrFields ==
    /\ event.fn = "map_ocr_to_questionnaire_fields"
    /\ result = NoResponse
    /\ result' = [op |-> "map_ocr_to_questionnaire_fields",
                  mapped_data |-> map_ocr_to_questionnaire_fields(event)]
    /\ UNCHANGED <<event, wizardVars, concVars, extVars>>

-----------------------------------------------------------------------------
(* Document endpoints (src/src/api/v1/documents.py, mounted at             *)
(* /documents, and src/src/api/v1/documents_simple.py, mounted at          *)
(* /documents-simple).  documents.py keeps metadata in the DynamoDB table  *)
(* (metadata_store.table), documents_simple.py in local files              *)
(* (metadata_store.local).                                                 *)

MaxDocuments == 2

\* an int of a request body
I(n) == [kind |-> "int", n |-> n]

\* the values of the DocumentType enum
DocumentType ==
    {"imm1294", "imm5645", "imm5257", "passport", "acceptance_letter",
     "education_transcript", "ielts_results", "gic_proof", "tuition_payment",
     "pal_tal", "digital_photo", "medical_exam", "additional_docs", "client_info"}

\* allowed_types of PresignUrlRequest.validate_content_type
allowed_types ==
    {"application/pdf", "image/jpeg", "image/png", "image/tiff", "application/msword",
     "application/vnd.openxmlformats-officedocument.wordprocessingml.document"}

\* the file names of the model that end in one of allowed_extensions
AllowedFileNames == {"passport.pdf", "document.pdf"}

\* 10*1024*1024
max_file_size == 10485760

category_mapping ==
    [other |-> "additional_docs", others |-> "additional_docs",
     additional |-> "additional_docs", passport |-> "passport",
     acceptance |-> "acceptance_letter", transcript |-> "education_transcript",
     ielts |-> "ielts_results", gic |-> "gic_proof", tuition |-> "tuition_payment",
     photo |-> "digital_photo", medical |-> "medical_exam"]

content_type_mapping ==
    [pdf |-> "application/pdf", jpg |-> "image/jpeg", jpeg |-> "image/jpeg",
     png |-> "image/png", doc |-> "application/msword",
     docx |-> "application/vnd.openxmlformats-officedocument.wordprocessingml.document"]

\* the metadata store with no document
NoDocuments == [table |-> EmptyMap, local |-> EmptyMap]

\* the ids of the stored documents
StoredIds(store) == DOMAIN store.table \cup DOMAIN store.local

\* str(uuid.uuid4()): an id that no document has
NewDocumentId(store) == "doc" \o ToString(Cardinality(StoredIds(store)) + 1)

\* PresignUrlRequest(...): the pydantic model accepts the five fields
PresignUrlRequestValid(session_id, document_type, file_name, content_type, file_size) ==
    /\ session_id.kind = "str" /\ session_id.s # ""
    /\ document_type.kind = "str" /\ document_type.s \in DocumentType
    /\ file_name.kind = "str" /\ file_name.s \in AllowedFileNames
    /\ content_type.kind = "str" /\ content_type.s \in allowed_types
    /\ file_size.kind = "int" /\ file_size.n > 0 /\ file_size.n <= max_file_size

\* DocumentService.generate_presigned_url: the metadata is stored in the
\* table under request.session_id
generate_presigned_url(store, session_id, document_type, file_size, user_id) ==
    LET document_id == NewDocumentId(store)
        document_metadata == [document_id |-> document_id,
                              session_id |-> session_id.s,
                              user_id |-> user_id,
                              document_type |-> document_type.s,
                              file_size |-> file_size.n,
                              status |-> "uploading"]
    IN  [store |-> [store EXCEPT !.table = DictUpdate(@, document_id :> document_metadata)],
         response |-> [status_code |-> 200, status |-> "ok", document_id |-> document_id,
                       detail |-> ""]]

\* the error dict both init endpoints of documents.py return with HTTP 200
InitError(store, message) ==
    [store |-> store,
     response |-> [status_code |-> 200, status |-> "error", document_id |-> "",
                   detail |-> message]]

\* POST /documents/init-simple: every field missing from data gets a default
initialize_document_upload_simple(store, data) ==
    LET session_id == GetOr(data, "session_id", S("unknown"))
        given_type == IF Truthy(Get(data, "document_type")) THEN data.document_type
                      ELSE GetOr(data, "category", S("additional_docs"))
        document_type ==
            IF given_type.s \in DocumentType THEN given_type
            ELSE IF given_type.s \in DOMAIN category_mapping
                 THEN S(category_mapping[given_type.s])
                 ELSE S("additional_docs")
        file_name == IF Truthy(Get(data, "file_name")) THEN data.file_name
                     ELSE GetOr(data, "filename", S("document.pdf"))
        given_content_type == GetOr(data, "content_type", S("application/pdf"))
        content_type == IF given_content_type.s \in DOMAIN content_type_mapping
                        THEN S(content_type_mapping[given_content_type.s])
                        ELSE given_content_type
        given_size == IF "file_size" \in DOMAIN data /\ data.file_size.n # 0
                      THEN data.file_size
                      ELSE GetOr(data, "size", I(1000000))
        file_size == I(IF given_size.n < 1 THEN 1
                       ELSE IF given_size.n > max_file_size THEN max_file_size
                       ELSE given_size.n)
    IN  IF PresignUrlRequestValid(session_id, document_type, file_name, content_type, file_size)
        THEN generate_presigned_url(store, session_id, document_type, file_size, "anonymous")
        ELSE InitError(store, "Failed to initialize upload")

\* POST /documents/init: PresignUrlRequest(**data) raises a ValidationError,
\* which is a ValueError, when a field is missing or invalid, and the handler
\* then falls back to initialize_document_upload_simple
initialize_document_upload(store, data, user_id) ==
    IF /\ {"session_id", "document_type", "file_name", "content_type", "file_size"}
              \subseteq DOMAIN data
       /\ PresignUrlRequestValid(data.session_id, data.document_type, data.file_name,
                                 data.content_type, data.file_size)
    THEN generate_presigned_url(store, data.session_id, data.document_type,
                                data.file_size, user_id)
    ELSE initialize_document_upload_simple(store, data)

\* DocumentService._trigger_ocr_processing: the status the document is left
\* with is "processed" when the OCR pipeline returns, "failed" when it raises
\* and "processing" when the application service cannot be imported
OcrOutcomes == {"processed", "failed", "processing"}

\* DocumentService.mark_upload_complete
mark_upload_complete(store, document_id, file_size, ocr) ==
    IF document_id \notin DOMAIN store.table
    THEN [store |-> store,
          response |-> [status_code |-> 404, status |-> "error", document_id |-> document_id,
                        detail |-> "Document not found"]]
    ELSE [store |-> [store EXCEPT !.table[document_id].status = ocr,
                                  !.table[document_id].file_size = file_size],
          response |-> [status_code |-> 200, status |-> "uploaded",
                        document_id |-> document_id, detail |-> ""]]

\* POST /documents/upload-complete: FastAPI answers 422 when the body is not
\* a DocumentUploadCompleteRequest
upload_complete_endpoint(store, data, ocr) ==
    IF ~({"document_id", "file_size"} \subseteq DOMAIN data)
       \/ data.document_id.kind # "str" \/ data.file_size.kind # "int"
    THEN [store |-> store,
          response |-> [status_code |-> 422, status |-> "error", document_id |-> "",
                        detail |-> "field required"]]
    ELSE mark_upload_complete(store, data.document_id.s, data.file_size.n, ocr)

\* GET /documents/download/{document_id}: the metadata is not consulted
get_document_download_url(store, document_id) ==
    [store |-> store,
     response |-> [status_code |-> 200, status |-> "ok", document_id |-> document_id,
                   detail |-> "https://example.com/download/" \o document_id]]

\* SimpleDocumentService.init_upload
init_upload(store, request_data) ==
    LET session_id == GetOr(request_data, "session_id", S(""))
        document_type == GetOr(request_data, "document_type", S("unknown"))
        file_size == GetOr(request_data, "file_size", I(0))
        document_id == NewDocumentId(store)
        metadata == [document_id |-> document_id,
                     session_id |-> session_id.s,
                     user_id |-> "",
                     document_type |-> document_type.s,
                     file_size |-> file_size.n,
                     status |-> "uploading"]
    IN  IF ~Truthy(session_id)
        THEN [store |-> store,
              result |-> [success |-> FALSE, error |-> "session_id is required",
                          document_id |-> ""]]
        ELSE [store |-> [store EXCEPT !.local = DictUpdate(@, document_id :> metadata)],
              result |-> [success |-> TRUE, error |-> "", document_id |-> document_id]]

\* POST /documents-simple/init
init_document_upload(store, data) ==
    LET r == init_upload(store, data)
    IN  [store |-> r.store,
         response |-> IF ~r.result.success
                      THEN [status_code |-> 400, status |-> "error", document_id |-> "",
                            detail |-> r.result.error]
                      ELSE [status_code |-> 200, status |-> "uploading",
                            document_id |-> r.result.document_id, detail |-> ""]]

\* SimpleDocumentService.complete_upload
complete_upload(store, document_id, file_size) ==
    IF document_id \notin DOMAIN store.local
    THEN [store |-> store,
          result |-> [success |-> FALSE,
                      error |-> "Document " \o document_id \o " not found",
                      document_id |-> document_id]]
    ELSE [store |-> [store EXCEPT !.local[document_id].status = "uploaded",
                                  !.local[document_id].file_size = file_size],
          result |-> [success |-> TRUE, error |-> "", document_id |-> document_id]]

\* POST /documents-simple/upload-complete
complete_document_upload(store, data) ==
    LET document_id == Get(data, "document_id")
        file_size == GetOr(data, "file_size", I(0))
    IN  IF ~Truthy(document_id)
        THEN [store |-> store,
              response |-> [status_code |-> 400, status |-> "error", document_id |-> "",
                            detail |-> "document_id is required"]]
        ELSE LET r == complete_upload(store, document_id.s, file_size.n)
             IN  [store |-> r.store,
                  response |-> IF ~r.result.success
                               THEN [status_code |-> 400, status |-> "error",
                                     document_id |-> document_id.s,
                                     detail |-> r.result.error]
                               ELSE [status_code |-> 200, status |-> "uploaded",
                                     document_id |-> document_id.s, detail |-> ""]]

\* SimpleDocumentService.get_download_url and GET
\* /documents-simple/download/{document_id}
get_download_url(store, document_id) ==
    IF document_id \notin DOMAIN store.local
    THEN [store |-> store,
          response |-> [status_code |-> 404, status |-> "error", document_id |-> document_id,
                        detail |-> "Document " \o document_id \o " not found"]]
    ELSE [store |-> store,
          response |-> [status_code |-> 200, status |-> "ok", document_id |-> document_id,
                        detail |-> ""]]

-----------------------------------------------------------------------------
(* Requests to the document endpoints *)

\* the bodies of an upload initialisation: session_id is missing, empty or
\* given, and so is document_type
UploadBodies ==
    {Dict([session_id |-> s, document_type |-> t, file_name |-> S("passport.pdf"),
           content_type |-> S("application/pdf"), file_size |-> I(2048)]) :
        s \in {Absent, S(""), S("session_1")},
        t \in {Absent, S("passport")}}

\* the document ids a client may name: the ids of the documents that can
\* exist, and one that never exists
ClientDocumentIds == {"doc" \o ToString(n) : n \in 1..(MaxDocuments + 1)}

\* the bodies of an upload completion
CompletionBodies ==
    {Dict([document_id |-> d, file_size |-> I(2048)]) :
        d \in {Absent} \cup {S(id) : id \in ClientDocumentIds}}

\* the state after an endpoint has answered request with r
Answered(op, request, r) ==
    /\ metadata_store' = r.store
    /\ result' = [op |-> op, request |-> request, response |-> r.response]
    /\ UNCHANGED <<event, wizardVars, concVars, heapVars, ocrVars, flowVars>>

PostInit(data) ==
    /\ Cardinality(StoredIds(metadata_store)) < MaxDocuments
    /\ Answered("documents/init", data,
                initialize_document_upload(metadata_store, data, "anonymous"))

PostInitSimple(data) ==
    /\ Cardinality(StoredIds(metadata_store)) < MaxDocuments
    /\ Answered("documents/init-simple", data,
                initialize_document_upload_simple(metadata_store, data))

PostUploadComplete(data, ocr) ==
    /\ data \in CompletionBodies
    /\ Answered("documents/upload-complete", data,
                upload_complete_endpoint(metadata_store, data, ocr))

GetDownload(document_id) ==
    /\ document_id \in ClientDocumentIds
    /\ Answered("documents/download", [document_id |-> S(document_id)],
                get_document_download_url(metadata_store, document_id))

PostSimpleInit(data) ==
    /\ Cardinality(StoredIds(metadata_store)) < MaxDocuments
    /\ Answered("documents-simple/init", data, init_document_upload(metadata_store, data))

PostSimpleUploadComplete(data) ==
    /\ data \in CompletionBodies
    /\ Answered("documents-simple/upload-complete", data,
                complete_document_upload(metadata_store, data))

GetSimpleDownload(document_id) ==
    /\ document_id \in ClientDocumentIds
    /\ Answered("documents-simple/download", [document_id |-> S(document_id)],
                get_download_url(metadata_store, document_id))

-----------------------------------------------------------------------------
(* The form objects of the form service (form_service.py).  An IRCCForm is *)
(* a mutable object: _auto_fill_imm1294 and the like assign field.value,   *)
(* and _validate_form assigns completion_percentage, is_valid and          *)
(* validation_errors, on the object they are given.  The objects are the   *)
(* three templates, named by their form type, and the copies made of       *)
(* them; form_heap holds the form of each object that was made or assigned *)
(* to after the service was constructed, and a template that is not in it  *)
(* holds what _initialize_form_templates gave it.                          *)

MaxRequests == 2

\* the form the object ref holds
Deref(heap, ref) == IF ref \in DOMAIN heap THEN heap[ref] ELSE form_templates[ref]

\* the object auto_fill_form is about to create
NewForm(forms) == "form" \o ToString(Len(forms) + 1)

\* the template itself is handed out
get_form_template_shared(heap, forms, form_type) ==
    [ref |-> form_type, heap |-> heap]

\* _get_form_template: copy.deepcopy makes a new object that holds what the
\* template holds
get_form_template_copy(heap, forms, form_type) ==
    [ref |-> NewForm(forms), heap |-> NewForm(forms) :> Deref(heap, form_type) @@ heap]

\* _auto_fill_imm1294, _auto_fill_imm5645 or _auto_fill_imm5257, then
\* _validate_form, on the form an object holds
fill_and_validate(form, form_type, questionnaire_responses) ==
    validate_form(
        CASE form_type = IMM1294 -> ApplyMappings(form, Imm1294Mappings(questionnaire_responses))
          [] form_type = IMM5645 -> ApplyMappings(form, Imm5645Mappings(questionnaire_responses))
          [] form_type = IMM5257 -> ApplyMappings(form, Imm5257Mappings(questionnaire_responses)))

\* the responses of the auto-fill requests: no answer, a passport country,
\* two sets of answers that fill different fields, a null section
AutoFillResponses ==
    {EmptyMap,
     [basic_info |-> [passport_country_code |-> S("IND")]],
     [basic_info |-> [passport_country_code |-> S("CAN"), current_residence |-> S("India")],
      marital_status |-> S("Married")],
     [financial_status |-> [gic_amount |-> N(206350)],
      medical_exam |-> [has_medical_exam |-> B(TRUE)]],
     [basic_info |-> NoneVal]}

\* auto_fill_form on the objects of the service; when it raises, the copy
\* is dropped and no form is returned
AutoFillRequest(form_type, questionnaire_responses) ==
    /\ Len(returned) < MaxRequests
    /\ IF auto_fill_form_raises(form_type, questionnaire_responses) # ""
       THEN UNCHANGED <<form_heap, returned>>
       ELSE LET got == get_form_template_copy(form_heap, returned, form_type)
                form == fill_and_validate(Deref(got.heap, got.ref), form_type,
                                          questionnaire_responses)
            IN  /\ form_heap' = got.ref :> form @@ got.heap
                /\ returned' = Append(returned, [ref |-> got.ref, form |-> form])
    /\ result' = [op |-> "auto_fill_form", form_type |-> form_type,
                  responses |-> questionnaire_responses]
    /\ UNCHANGED <<event, wizardVars, concVars, docVars, ocrVars, flowVars>>

-----------------------------------------------------------------------------
(* OCR of uploaded documents (src/src/lambdas/ocr_handler.py).  The Lambda *)
(* function receives a batch of SQS records; documents_table is the        *)
(* DynamoDB table TABLE_DOCS.  An S3 object key is held split at '/' and   *)
(* at the last '.': [dirs, stem, ext], ext = "" when the name has no dot.  *)

MaxRecords == 2

MAX_FILE_SIZE_MB == 5

\* the bytes of a megabyte: 1024 * 1024
BytesPerMB == 1048576

SUPPORTED_IMAGE_FORMATS == {".jpg", ".jpeg", ".png", ".tiff", ".tif"}

SUPPORTED_DOC_FORMATS == {".pdf"}

\* str.lower() of the extensions of the model
LowerExt(ext) ==
    CASE ext = "JPG" -> "jpg"
      [] ext = "PDF" -> "pdf"
      [] OTHER -> ext

\* object_key.split('/')
KeyParts(object_key) ==
    object_key.dirs \o <<IF object_key.ext = "" THEN object_key.stem
                         ELSE object_key.stem \o "." \o object_key.ext>>

\* extract_document_id_from_key
extract_document_id_from_key(object_key) ==
    IF Len(KeyParts(object_key)) >= 3 THEN KeyParts(object_key)[3]
    ELSE object_key.stem

\* get_file_extension
get_file_extension(object_key) ==
    IF object_key.ext = "" THEN "" ELSE "." \o LowerExt(object_key.ext)

\* is_supported_format
is_supported_format(file_extension) ==
    file_extension \in SUPPORTED_IMAGE_FORMATS \cup SUPPORTED_DOC_FORMATS

\* the key '' that message_body.get('key', '') gives a body without key
EmptyKey == [dirs |-> <<>>, stem |-> "", ext |-> ""]

\* what Textract reads on the documents of the model
RecognisedText ==
    [passport_number |-> NoneVal, full_name |-> S("Asha Rao"), date_of_birth |-> NoneVal,
     nationality |-> S("Indian"), ielts_scores |-> NoneVal, institution_name |-> NoneVal,
     gic_amount |-> NoneVal, tuition_amount |-> NoneVal]

\* the text of a result that has no text block
NoText == [k \in DOMAIN RecognisedText |-> NoneVal]

\* process_sync_detect_text and process_sync_analyze_document when the
\* Textract call returns
SyncResult(mode) ==
    [mode |-> mode, text_blocks |-> 2, text |-> RecognisedText, form_data |-> EmptyMap]

\* the result process_document_ocr returns when a Textract call has raised
ErrorResult ==
    [mode |-> "error", text_blocks |-> 0, text |-> NoText, form_data |-> EmptyMap]

\* process_async_detect_text when the job has been started
AsyncStarted ==
    [mode |-> "async_detect_text", text_blocks |-> 0, text |-> NoText,
     form_data |-> EmptyMap]

\* process_document_ocr.  textract is what the Textract service does for the
\* document: "ok" (every call returns), "fail" (every call raises) or
\* "no_async" (start_document_text_detection raises, the other calls return)
process_document_ocr(file_extension, size_bytes, textract) ==
    IF file_extension \in SUPPORTED_IMAGE_FORMATS
       /\ size_bytes < MAX_FILE_SIZE_MB * BytesPerMB
    THEN IF textract = "fail" THEN ErrorResult ELSE SyncResult("sync_detect_text")
    ELSE IF file_extension = ".pdf" /\ size_bytes < MAX_FILE_SIZE_MB * BytesPerMB
    THEN IF textract = "fail" THEN ErrorResult ELSE SyncResult("sync_analyze_document")
    ELSE CASE textract = "ok" -> AsyncStarted
           [] textract = "no_async" -> SyncResult("sync_detect_text")
           [] textract = "fail" -> ErrorResult

\* update_document_status: update_item sets status and the attributes of
\* additional_data, and makes the item when the table has none; DynamoDB
\* refuses an empty key, and the function logs the exception
update_document_status(table, document_id, status, additional_data) ==
    LET old == IF document_id \in DOMAIN table THEN table[document_id]
               ELSE [status |-> "", ocr_mode |-> ""]
    IN  IF document_id = "" THEN table
        ELSE document_id :> [status |-> status,
                             ocr_mode |-> GetOr(additional_data, "ocr_mode", old.ocr_mode)]
             @@ table

\* update_document_with_ocr_results: ocr_mode is ocr_results['mode']
update_document_with_ocr_results(table, document_id, ocr_result) ==
    update_document_status(table, document_id, "processed", [ocr_mode |-> ocr_result.mode])

\* the outcome of process_sqs_record when it raises
Raised(table, message) == [table |-> table, raised |-> TRUE, error |-> message]

\* process_sqs_record.  A record holds, beside the SQS message, what S3 and
\* Textract do while it is processed: content_length is the ContentLength
\* head_object returns, -1 when head_object raises
process_sqs_record(table, record) ==
    IF "body" \notin DOMAIN record THEN Raised(table, "'body'")
    ELSE IF record.body.kind = "invalid_json"
    THEN Raised(table, "Expecting value: line 1 column 1 (char 0)")
    ELSE IF record.body.kind = "json_list"
    THEN Raised(table, "'list' object has no attribute 'get'")
    ELSE IF record.body.kind = "s3_event" /\ "s3" \notin DOMAIN record.body.Records[1]
    THEN Raised(table, "'s3'")
    ELSE
    LET message_body == record.body
        object_key == IF message_body.kind = "s3_event"
                      THEN message_body.Records[1].s3.object.key
                      ELSE GetOr(message_body.items, "key", EmptyKey)
        document_id == extract_document_id_from_key(object_key)
        file_extension == get_file_extension(object_key)
        size_bytes == IF record.content_length < 0 THEN 0 ELSE record.content_length
    IN  IF ~is_supported_format(file_extension)
        THEN Raised(update_document_status(table, document_id, "failed", EmptyMap),
                    "Unsupported file format: " \o file_extension)
        ELSE IF size_bytes > MAX_FILE_SIZE_MB * BytesPerMB
        THEN Raised(update_document_status(table, document_id, "failed", EmptyMap),
                    "File too large")
        ELSE LET processing == update_document_status(table, document_id, "processing",
                                                      EmptyMap)
                 ocr_result == process_document_ocr(file_extension, size_bytes,
                                                    record.textract)
                 mapped_data == map_ocr_to_questionnaire_fields(ocr_result)
             IN  [table |-> update_document_with_ocr_results(processing, document_id,
                                                             ocr_result),
                  raised |-> FALSE,
                  result |-> [status |-> "success",
                              document_id |-> document_id,
                              ocr_mode |-> ocr_result.mode,
                              text_blocks_found |-> ocr_result.text_blocks,
                              mapped_fields |-> Len_(mapped_data)]]

RECURSIVE ProcessRecordsUntilError(_, _)
RECURSIVE ProcessRecords(_, _)

\* the loop of lambda_handler without the try around process_sqs_record's
\* call: the first record that raises ends the loop
ProcessRecordsUntilError(table, records) ==
    IF records = <<>> THEN [table |-> table, results |-> <<>>]
    ELSE LET r == process_sqs_record(table, Head(records))
         IN  IF r.raised THEN [table |-> r.table, results |-> <<>>]
             ELSE LET rest == ProcessRecordsUntilError(r.table, Tail(records))
                  IN  [table |-> rest.table, results |-> <<r.result>> \o rest.results]

\* the loop of lambda_handler over event['Records']
ProcessRecords(table, records) ==
    IF records = <<>> THEN [table |-> table, results |-> <<>>]
    ELSE LET r == process_sqs_record(table, Head(records))
             outcome == IF r.raised
                        THEN [status |-> "error", error |-> r.error,
                              record_id |-> GetOr(Head(records), "messageId", "unknown")]
                        ELSE r.result
             rest == ProcessRecords(r.table, Tail(records))
         IN  [table |-> rest.table, results |-> <<outcome>> \o rest.results]

\* lambda_handler of ocr_handler.py
ocr_lambda_handler(table, ev) ==
    LET done == ProcessRecords(table, ev.Records)
    IN  [table |-> done.table,
         response |-> [op |-> "ocr",
                       statusCode |-> 200,
                       message |-> "Processed " \o ToString(Len(done.results)) \o " records",
                       results |-> done.results]]

-----------------------------------------------------------------------------
(* Batches of SQS records *)

\* raw/{session_id}/{document_id}/{filename}
RawKey(document_id, stem, ext) ==
    [dirs |-> <<"raw", "session_1", document_id>>, stem |-> stem, ext |-> ext]

\* a message in the direct format
DirectBody(items) == [kind |-> "json", items |-> items]

\* an S3 event notification
S3EventBody(object_key) ==
    [kind |-> "s3_event",
     Records |-> <<[s3 |-> [bucket |-> [name |-> "visamate-documents"],
                            object |-> [key |-> object_key]]]>>]

\* records the handler can process: an image and a PDF in the direct format
ValidRecords ==
    {[messageId |-> "m-" \o d, body |-> DirectBody([key |-> k]),
      content_length |-> n, textract |-> t] :
        d \in {"d"}, k \in {RawKey("doc1", "passport", "JPG"), RawKey("doc2", "letter", "pdf")},
        n \in {BytesPerMB, 5 * BytesPerMB, -1}, t \in {"ok", "fail", "no_async"}}
    \cup {[messageId |-> "m-s3", body |-> S3EventBody(RawKey("doc1", "passport", "JPG")),
           content_length |-> BytesPerMB, textract |-> "ok"]}

\* records that fail: no body, a body that is not JSON, a JSON list, a body
\* without bucket and key, a notification without 's3', a format that is not
\* supported, a file over 5 MB
FailingRecords ==
    {[messageId |-> "m-nobody", content_length |-> -1, textract |-> "ok"],
     [body |-> [kind |-> "invalid_json"], content_length |-> -1, textract |-> "ok"],
     [messageId |-> "m-list", body |-> [kind |-> "json_list"],
      content_length |-> -1, textract |-> "ok"],
     [messageId |-> "m-nokey", body |-> DirectBody(EmptyMap),
      content_length |-> -1, textract |-> "ok"],
     [messageId |-> "m-nos3", body |-> [kind |-> "s3_event", Records |-> <<EmptyMap>>],
      content_length |-> -1, textract |-> "ok"],
     [messageId |-> "m-txt", body |-> DirectBody([key |-> RawKey("doc3", "notes", "txt")]),
      content_length |-> BytesPerMB, textract |-> "ok"],
     [messageId |-> "m-big", body |-> DirectBody([key |-> RawKey("doc1", "passport", "JPG")]),
      content_length |-> 6 * BytesPerMB, textract |-> "ok"]}

SqsRecords == ValidRecords \cup FailingRecords

BatchEvents ==
    {[fn |-> "ocr", Records |-> rs] :
        rs \in UNION {[1..n -> SqsRecords] : n \in 0..MaxRecords}}

\* the Lambda function is invoked with the batch
ProcessBatch ==
    /\ event.fn = "ocr"
    /\ result = NoResponse
    /\ LET r == ocr_lambda_handler(documents_table, event)
       IN  /\ result' = r.response
           /\ documents_table' = r.table
    /\ UNCHANGED <<event, wizardVars, concVars, docVars, heapVars, flowVars>>

-----------------------------------------------------------------------------
(* The Visa Wizard workflow (src/infrastructure/stepfn_stack.py,           *)
(* _create_visa_wizard_workflow): one execution of the Step Functions      *)
(* state machine.  execution.state is the state the execution is in,       *)
(* documents_ready the field of that name of the execution's input, which  *)
(* no state of the workflow writes (every task writes its result under its *)
(* own result_path, and a Wait state passes its input on), retried the     *)
(* errors of the attempts of the current task that were made again, waits  *)
(* the number of waits that have ended, started and completed the tasks in *)
(* the order they were entered and left, caught the error the catch_policy *)
(* caught.                                                                 *)

\* the waits of an execution are counted up to MaxWaits
MaxWaits == 2

\* the four LambdaInvoke tasks, in the order of the chain
LambdaTasks == <<"ValidateAnswers", "OCRTask", "EligibilityTask", "FormFillTask">>
LambdaTaskSet == {LambdaTasks[i] : i \in DOMAIN LambdaTasks}

\* retry_policy.errors
retry_errors == {"Lambda.ServiceException", "Lambda.AWSLambdaException"}

\* retry_policy.max_attempts
max_attempts == 3

\* the errors a task can end an attempt with: the two of the retry policy,
\* an exception of the function, a timeout
TaskErrors == retry_errors \cup {"Lambda.Unknown", "States.Timeout"}

\* no error has been caught, no task has run
NoError == [task |-> "", error |-> ""]

\* the execution that has not started
NoExecution ==
    [state |-> "", documents_ready |-> Absent, retried |-> <<>>, waits |-> 0,
     started |-> <<>>, completed |-> <<>>, observed_ready |-> FALSE,
     caught |-> NoError]

\* StartExecution with an input that has documents_ready true, false or not
\* at all: the execution enters the first state of the chain
Started(documents_ready) ==
    [NoExecution EXCEPT !.state = "ValidateAnswers",
                        !.documents_ready = documents_ready,
                        !.started = <<"ValidateAnswers">>]

\* the state task.next(...) leads to
NextState(task) ==
    CASE task = "ValidateAnswers" -> "CheckDocuments"
      [] task = "OCRTask" -> "EligibilityTask"
      [] task = "EligibilityTask" -> "FormFillTask"
      [] task = "FormFillTask" -> "WorkflowComplete"

\* the execution enters state
Enter(e, state) ==
    [e EXCEPT !.state = state,
              !.retried = <<>>,
              !.started = IF state \in LambdaTaskSet THEN Append(@, state) ELSE @]

\* every input counts as ready
ChoiceAlwaysReady(documents_ready) == "OCRTask"

\* check_documents.when(boolean_equals("$.documents_ready", True), ocr_task...)
\* .otherwise(wait_for_docs...)
Choice(documents_ready) ==
    IF documents_ready = B(TRUE) THEN "OCRTask" ELSE "WaitForDocuments"

\* the Lambda function of the task returns: the result is written under the
\* task's result_path and the execution moves on
TaskSucceeds(task) ==
    /\ execution.state = task
    /\ execution' = [Enter(execution, NextState(task)) EXCEPT
                        !.completed = Append(execution.completed, task)]
    /\ UNCHANGED <<wizardVars, concVars, callVars, docVars, heapVars, ocrVars>>

\* an attempt ends with an error of the retry policy and is made again
TaskRetries(task, error) ==
    /\ execution.state = task
    /\ error \in retry_errors
    /\ Len(execution.retried) < max_attempts
    /\ execution' = [execution EXCEPT !.retried = Append(@, error)]
    /\ UNCHANGED <<wizardVars, concVars, callVars, docVars, heapVars, ocrVars>>

\* an attempt ends with an error that is not retried, or not any more: the
\* catch_policy (States.ALL) leads to the failure state
TaskFails(task, error) ==
    /\ execution.state = task
    /\ error \in retry_errors => Len(execution.retried) = max_attempts
    /\ execution' = [execution EXCEPT !.state = "WorkflowFailed",
                                      !.caught = [task |-> task, error |-> error]]
    /\ UNCHANGED <<wizardVars, concVars, callVars, docVars, heapVars, ocrVars>>

\* the Choice state.  When the input has no documents_ready the condition
\* reads a path that does not exist, and Step Functions either takes the
\* default branch or fails the execution with States.Runtime
CheckDocuments ==
    /\ execution.state = "CheckDocuments"
    /\ \/ execution' =
            [Enter(execution, Choice(execution.documents_ready)) EXCEPT
                !.observed_ready = (execution.documents_ready = B(TRUE))]
       \/ /\ execution.documents_ready = Absent
          /\ execution' = [execution EXCEPT !.state = "ExecutionFailed"]
    /\ UNCHANGED <<wizardVars, concVars, callVars, docVars, heapVars, ocrVars>>

\* the Wait state: after a minute the documents are checked again
WaitForDocuments ==
    /\ execution.state = "WaitForDocuments"
    /\ execution' = [Enter(execution, "CheckDocuments") EXCEPT
                        !.waits = IF @ < MaxWaits THEN @ + 1 ELSE @]
    /\ UNCHANGED <<wizardVars, concVars, callVars, docVars, heapVars, ocrVars>>

-----------------------------------------------------------------------------
(* Specifications *)

\* no document has been uploaded or processed; the form service holds its
\* templates and has returned no form; no execution of the workflow has
\* started
ExtIdle ==
    /\ metadata_store = NoDocuments
    /\ form_heap = EmptyMap
    /\ returned = <<>>
    /\ documents_table = EmptyMap
    /\ execution = NoExecution

\* session_answers_store = {} when the module is imported; no task exists
Init ==
    /\ session_answers_store = EmptyMap
    /\ now = 0
    /\ resp = NoResponse
    /\ repeat = FALSE
    /\ pc = [t \in Tasks |-> "done"]
    /\ loop = "free"
    /\ args = [t \in Tasks |-> NoArgs]
    /\ remaining = [t \in Tasks |-> {}]
    /\ base = EmptyMap
    /\ observed = [t \in Tasks |-> NoResponse]
    /\ event = NoEvent
    /\ result = NoResponse
    /\ ExtIdle

Next ==
    \/ \E user_id \in Users : start_wizard_session(user_id)
    \/ \E session_id \in SessionIds, answers \in AnswerMaps :
            submit_questionnaire_answers(session_id, answers)
    \/ \E session_id \in SessionIds : get_saved_answers(session_id)
    \/ debug_all_sessions
    \/ \E session_id \in SessionIds : get_document_checklist(session_id)
    \/ \E session_id \in SessionIds : get_prefilled_forms(session_id)
    \/ \E session_id \in SessionIds : get_wizard_tree(session_id)
    \/ Tick

Spec == Init /\ [][Next]_vars

\* the stores in which at most one session has an entry: each is the result
\* of zero or more submissions to that session
SingleSessionStores(session_id) ==
    {EmptyMap} \cup {[s \in {session_id} |-> a] : a \in AnswerMaps}

\* two submissions and one read of the same session have arrived together
ConcInit ==
    /\ now = 0
    /\ resp = NoResponse
    /\ repeat = FALSE
    /\ loop = "free"
    /\ pc = [t \in Tasks |-> "pending"]
    /\ remaining = [t \in Tasks |-> {}]
    /\ observed = [t \in Tasks |-> NoResponse]
    /\ event = NoEvent
    /\ result = NoResponse
    /\ ExtIdle
    /\ \E session_id \in SessionIds :
        /\ session_answers_store \in SingleSessionStores(session_id)
        /\ \E a1 \in AnswerMaps, a2 \in AnswerMaps :
             args = [t \in Tasks |->
                        CASE t = "submit1" -> [session_id |-> session_id, answers |-> a1]
                          [] t = "submit2" -> [session_id |-> session_id, answers |-> a2]
                          [] OTHER -> [session_id |-> session_id, answers |-> EmptyMap]]
    /\ base = session_answers_store

ConcNext ==
    \E t \in Tasks :
        \/ SubmitEnsure(t)
        \/ SubmitUpdate(t)
        \/ SubmitRespond(t)
        \/ ReadCheck(t)
        \/ ReadReturn(t)

SpecConc == ConcInit /\ [][ConcNext]_vars

\* the state in which the wizard is idle and the function under study has
\* received one of events
CallInit(events) ==
    /\ session_answers_store = EmptyMap
    /\ now = 0
    /\ resp = NoResponse
    /\ repeat = FALSE
    /\ pc = [t \in Tasks |-> "done"]
    /\ loop = "free"
    /\ args = [t \in Tasks |-> NoArgs]
    /\ remaining = [t \in Tasks |-> {}]
    /\ base = EmptyMap
    /\ observed = [t \in Tasks |-> NoResponse]
    /\ event \in events
    /\ result = NoResponse
    /\ ExtIdle

EligInit == CallInit(EligibilityEvents)

EligNext == CheckEligibility

SpecElig == EligInit /\ [][EligNext]_vars

FormsInit == CallInit(FormEvents)

FormsNext ==
    \/ CallAutoFillForm
    \/ CallGenerateAllForms
    \/ CallValidateForm
    \/ CallAutoFillForms
    \/ \E failing \in SUBSET FormTypes : FillForms(failing)
    \/ Tick

SpecForms == FormsInit /\ [][FormsNext]_vars

OcrInit == CallInit(OcrEvents)

OcrNext == MapOcrFields

SpecOcr == OcrInit /\ [][OcrNext]_vars

\* the server has started and no document has been uploaded
DocsInit ==
    /\ session_answers_store = EmptyMap
    /\ now = 0
    /\ resp = NoResponse
    /\ repeat = FALSE
    /\ pc = [t \in Tasks |-> "done"]
    /\ loop = "free"
    /\ args = [t \in Tasks |-> NoArgs]
    /\ remaining = [t \in Tasks |-> {}]
    /\ base = EmptyMap
    /\ observed = [t \in Tasks |-> NoResponse]
    /\ event = NoEvent
    /\ result = NoResponse
    /\ ExtIdle

DocsNext ==
    \/ \E data \in UploadBodies : PostInit(data)
    \/ \E data \in UploadBodies : PostInitSimple(data)
    \/ \E data \in CompletionBodies, ocr \in OcrOutcomes : PostUploadComplete(data, ocr)
    \/ \E document_id \in ClientDocumentIds : GetDownload(document_id)
    \/ \E data \in UploadBodies : PostSimpleInit(data)
    \/ \E data \in CompletionBodies : PostSimpleUploadComplete(data)
    \/ \E document_id \in ClientDocumentIds : GetSimpleDownload(document_id)

SpecDocs == DocsInit /\ [][DocsNext]_vars

\* the form service has been constructed
HeapInit ==
    /\ session_answers_store = EmptyMap
    /\ now = 0
    /\ resp = NoResponse
    /\ repeat = FALSE
    /\ pc = [t \in Tasks |-> "done"]
    /\ loop = "free"
    /\ args = [t \in Tasks |-> NoArgs]
    /\ remaining = [t \in Tasks |-> {}]
    /\ base = EmptyMap
    /\ observed = [t \in Tasks |-> NoResponse]
    /\ event = NoEvent
    /\ result = NoResponse
    /\ ExtIdle

HeapNext ==
    \E form_type \in FormTypes, questionnaire_responses \in AutoFillResponses :
        AutoFillRequest(form_type, questionnaire_responses)

SpecHeap == HeapInit /\ [][HeapNext]_vars

BatchInit == CallInit(BatchEvents)

BatchNext == ProcessBatch

SpecBatch == BatchInit /\ [][BatchNext]_vars

\* an execution of the workflow has been started
FlowInit ==
    /\ session_answers_store = EmptyMap
    /\ now = 0
    /\ resp = NoResponse
    /\ repeat = FALSE
    /\ pc = [t \in Tasks |-> "done"]
    /\ loop = "free"
    /\ args = [t \in Tasks |-> NoArgs]
    /\ remaining = [t \in Tasks |-> {}]
    /\ base = EmptyMap
    /\ observed = [t \in Tasks |-> NoResponse]
    /\ event = NoEvent
    /\ result = NoResponse
    /\ metadata_store = NoDocuments
    /\ form_heap = EmptyMap
    /\ returned = <<>>
    /\ documents_table = EmptyMap
    /\ \E documents_ready \in {B(TRUE), B(FALSE), Absent} :
            execution = Started(documents_ready)

FlowNext ==
    \/ \E task \in LambdaTaskSet : TaskSucceeds(task)
    \/ \E task \in LambdaTaskSet, error \in TaskErrors : TaskRetries(task, error)
    \/ \E task \in LambdaTaskSet, error \in TaskErrors : TaskFails(task, error)
    \/ CheckDocuments
    \/ WaitForDocuments

SpecFlow == FlowInit /\ [][FlowNext]_vars

\* Step Functions runs an execution that is not in a terminal state: a task
\* is invoked and ends, a Choice is evaluated, a Wait ends
SpecFlowLive == SpecFlow /\ WF_vars(FlowNext)

-----------------------------------------------------------------------------
(* Properties.  The properties state what is expected of the program in    *)
(* their own terms: Override is the expected merge, Visible the expected   *)
(* visibility rule.                                                        *)

\* old overridden key by key with new
Override(old, new) ==
    [k \in DOMAIN old \cup DOMAIN new |->
        IF k \in DOMAIN new THEN new[k] ELSE old[k]]

\* C1: a submission leaves the session's map equal to the previous map
\* overridden key by key with the submitted map, and it reports
\* answers_received = number of submitted keys and total_answers_stored =
\* number of keys of the merged map.
C1_LastWriteWins ==
    [][(/\ resp'.op = "submit"
        /\ submit_questionnaire_answers(resp'.session_id, resp'.answers)) =>
            LET session_id == resp'.session_id
                answers == resp'.answers
                merged == Override(StoredAnswers(session_answers_store, session_id), answers)
            IN  /\ session_id \in DOMAIN session_answers_store'
                /\ session_answers_store'[session_id] = merged
                /\ resp'.answers_received = Cardinality(DOMAIN answers)
                /\ resp'.total_answers_stored = Cardinality(DOMAIN merged)]_vars

\* a one-key submission was merged into a map that holds a second key, and
\* the submitted key holds the submitted value
C1_Witness ==
    /\ resp.op = "submit"
    /\ resp.answers_received = 1
    /\ resp.total_answers_stored = 2
    /\ \A k \in DOMAIN resp.answers :
          session_answers_store[resp.session_id][k] = resp.answers[k]

\* the maps a serial execution of the two submissions passes through
SerialResults ==
    LET b == StoredAnswers(base, args["reader"].session_id)
        a1 == args["submit1"].answers
        a2 == args["submit2"].answers
    IN  {b, Override(b, a1), Override(b, a2),
         Override(Override(b, a1), a2), Override(Override(b, a2), a1)}

\* the maps a serial execution of the two submissions ends with
SerialFinals ==
    LET b == StoredAnswers(base, args["reader"].session_id)
        a1 == args["submit1"].answers
        a2 == args["submit2"].answers
    IN  {Override(Override(b, a1), a2), Override(Override(b, a2), a1)}

\* C2: with two submissions and a reader of one session running
\* concurrently, the map the reader returns and the map any other task could
\* see (the loop is free) result from a whole number of the submissions, and
\* the final map is the result of a serial order of the two.
C2_NoPartialMerge ==
    /\ observed["reader"].op = "answers" =>
            observed["reader"].answers \in SerialResults
    /\ loop = "free" =>
            StoredAnswers(session_answers_store, args["reader"].session_id) \in SerialResults
    /\ (\A t \in Tasks : pc[t] = "done") =>
            StoredAnswers(session_answers_store, args["reader"].session_id) \in SerialFinals

\* the reader ran between a two-key submission and the other submission
C2_Witness ==
    /\ \A t \in Tasks : pc[t] = "done"
    /\ Len_(args["submit1"].answers) = 2
    /\ observed["reader"].answers = args["submit1"].answers
    /\ observed["reader"].answers # StoredAnswers(base, args["reader"].session_id)
    /\ session_answers_store[args["reader"].session_id] # observed["reader"].answers

\* C3: submitting the same answer map to the same session a second time
\* leaves total_answers_stored and the stored map unchanged, and every
\* submitted key holds the submitted value.
C3_Idempotent ==
    [][(/\ resp.op = "submit"
        /\ resp'.op = "submit"
        /\ resp'.session_id = resp.session_id
        /\ resp'.answers = resp.answers
        /\ submit_questionnaire_answers(resp.session_id, resp.answers)) =>
            /\ resp'.total_answers_stored = resp.total_answers_stored
            /\ session_answers_store' = session_answers_store
            /\ \A k \in DOMAIN resp.answers :
                  session_answers_store'[resp.session_id][k] = resp.answers[k]]_vars

\* a map of one key was submitted twice to a session that holds two keys
C3_Witness ==
    /\ repeat
    /\ resp.op = "submit"
    /\ resp.answers_received = 1
    /\ resp.total_answers_stored = 2

\* C4: no step removes a session entry or a key of a session's map.
C4_NeverDeletes ==
    [][\A s \in DOMAIN session_answers_store :
        /\ s \in DOMAIN session_answers_store'
        /\ DOMAIN session_answers_store[s] \subseteq DOMAIN session_answers_store'[s]]_vars

\* a request other than a submission was handled while each session holds
\* an answer to every question submitted
C4_Witness ==
    /\ resp.op \in {"start", "answers", "tree", "forms", "checklist"}
    /\ DOMAIN session_answers_store = SessionIds
    /\ \A s \in SessionIds : DOMAIN session_answers_store[s] = SubmitKeys

\* C5: a submission to a session changes neither the presence nor the
\* answers of any other session, and reading the answers of a session changes
\* no session entry.
C5_SessionsIndependent ==
    [][/\ (/\ resp'.op = "submit"
           /\ submit_questionnaire_answers(resp'.session_id, resp'.answers)) =>
                \A other \in SessionIds \ {resp'.session_id} :
                    /\ (other \in DOMAIN session_answers_store')
                            <=> (other \in DOMAIN session_answers_store)
                    /\ StoredAnswers(session_answers_store', other)
                            = StoredAnswers(session_answers_store, other)
       /\ (/\ resp'.op = "answers"
           /\ get_saved_answers(resp'.session_id)) =>
                session_answers_store' = session_answers_store]_vars

\* the answers of a session without an entry were read, and it still has no
\* entry, while another session holds answers
C5_Witness ==
    /\ resp.op = "answers"
    /\ resp.session_id \notin DOMAIN session_answers_store
    /\ \E other \in DOMAIN session_answers_store :
          session_answers_store[other] # EmptyMap

\* the id of the first step of the first section of the tree
FirstStep == build_question_tree[1].steps[1].step_id

\* C6: the session id start returns has no stored answers, and the step it
\* reports is the first step of the tree.
C6_StartIsFresh ==
    resp.op = "start" =>
        /\ StoredAnswers(session_answers_store, resp.session_id) = EmptyMap
        /\ resp.current_step = FirstStep

\* the answers a response carries; none when it has no such part
ResponseAnswers(r) == IF "answers" \in DOMAIN r THEN r.answers ELSE EmptyMap

\* the question ids of a sequence of questions
Ids(questions, field) == {questions[i][field] : i \in 1..Len(questions)}

\* the questions of section i of the tree, over all its steps
TreeQuestions(i) ==
    UNION {{build_question_tree[i].steps[j].questions[n] :
                n \in 1..Len(build_question_tree[i].steps[j].questions)} :
           j \in 1..Len(build_question_tree[i].steps)}

\* C7: the response to a tree request is the static tree (every section,
\* with the questions of the tree) together with the answers stored for the
\* session.
C7_TreeWithAnswers ==
    resp.op = "tree" =>
        /\ Len(resp.sections) = Len(build_question_tree)
        /\ \A i \in 1..Len(resp.sections) :
              Ids(resp.sections[i].questions, "id")
                    \subseteq {q.question_id : q \in TreeQuestions(i)}
        /\ ResponseAnswers(resp) = StoredAnswers(session_answers_store, resp.session_id)

\* C8: a submission leaves the current_step that the tree request reports
\* unchanged, for the session submitted to.
C8_CursorUnchanged ==
    [][(/\ resp'.op = "submit"
        /\ submit_questionnaire_answers(resp'.session_id, resp'.answers)) =>
            WizardTree(session_answers_store', resp'.session_id).current_step
                = WizardTree(session_answers_store, resp'.session_id).current_step]_vars

\* the tree was requested for a session that holds submitted answers, and
\* it reports the first step
C8_Witness ==
    /\ resp.op = "tree"
    /\ StoredAnswers(session_answers_store, resp.session_id) # EmptyMap
    /\ resp.current_step = FirstStep

\* the visibility rule: no rule, or the dependency is answered with a
\* member of show_if
Visible(question, answers) ==
    \/ question.conditional_logic = <<>>
    \/ LET rule == question.conditional_logic[1]
       IN  /\ rule.depends_on \in DOMAIN answers
           /\ answers[rule.depends_on].kind = "str"
           /\ answers[rule.depends_on].s \in rule.show_if

\* C9: the questions returned for a session are exactly the visible ones:
\* a question of the tree is in the response iff it has no rule or its
\* dependency is answered with a member of show_if.
C9_ConditionalVisibility ==
    resp.op = "tree" =>
        \A i \in 1..Len(build_question_tree) :
            \A q \in TreeQuestions(i) :
                (q.question_id \in Ids(resp.sections[i].questions, "id"))
                    <=> Visible(q, StoredAnswers(session_answers_store, resp.session_id))

\* the (field id, value) pairs of an exported form
PdfFields(pdf_data) ==
    UNION {{<<pdf_data.sections[i].fields[j].field_id,
              pdf_data.sections[i].fields[j].value>> :
                j \in 1..Len(pdf_data.sections[i].fields)} :
           i \in 1..Len(pdf_data.sections)}

\* C10: the prefilled forms returned for a session carry the session's
\* stored passport country as country of birth, and the visa form is among
\* them iff that country requires a visa.
C10_FormsFromSession ==
    LET answers == StoredAnswers(session_answers_store, resp.session_id)
    IN  (resp.op = "forms" /\ "passport_country_code" \in DOMAIN answers) =>
            /\ <<"country_of_birth", Str(answers["passport_country_code"])>>
                    \in PdfFields(resp.prefilled_forms.forms[IMM1294].pdf_data)
            /\ (IMM5257 \in DOMAIN resp.prefilled_forms.forms)
                    <=> (answers["passport_country_code"].s \in trv_required_countries)

-----------------------------------------------------------------------------
(* Properties of the eligibility check *)

\* the eligibility check has answered the event with a result
EligibilityChecked == result.op = "eligibility_check" /\ result.statusCode = 200

\* the elements of a sequence
Range(seq) == {seq[i] : i \in DOMAIN seq}

\* C11: for every combination of the seven predicates, the score is
\* met_count / 7 x 100 and eligible is true exactly when met_count >= 6;
\* every requirement is either met or missing
C11_EligibilityThreshold ==
    EligibilityChecked =>
        LET met_count == Len(result.requirements_met)
        IN  /\ result.eligibility_score.num * 7
                    = met_count * 100 * result.eligibility_score.den
            /\ result.eligible <=> met_count >= 6
            /\ Range(result.requirements_met) \cup Range(result.requirements_missing)
                    = Range(RequirementNames)
            /\ met_count + Len(result.requirements_missing) = 7

\* six of the seven predicates hold and the applicant is eligible
C11_Witness ==
    /\ EligibilityChecked
    /\ Len(result.requirements_met) = 6
    /\ result.eligible

\* C12: clean_criminal_record is met if and only if the criminal_background
\* answer is present and is the boolean false; absent, true or any other
\* value leaves it unmet
C12_CleanRecordOnlyIfExplicitFalse ==
    EligibilityChecked =>
        ("clean_criminal_record" \in Range(result.requirements_met)
            <=> /\ event.answers # Absent
                /\ "criminal_background" \in DOMAIN event.answers.items
                /\ event.answers.items["criminal_background"] = B(FALSE))

\* the event of the end-to-end scenario: its answers and no OCR data
ScenarioEvent ==
    /\ event.fn = "eligibility_check"
    /\ event.answers = DictVal(ScenarioAnswers)
    /\ event.ocr_data = DictVal(EmptyMap)

-----------------------------------------------------------------------------
(* Properties of the OCR field mapping *)

\* the fields other than full_name whose extraction returned a value
ExtractedOthers ==
    LET m == OcrFieldMappings([event.text EXCEPT !.full_name = NoneVal],
                [k \in DOMAIN event.form_data \ KeyMatches["full_name"] |->
                    event.form_data[k]])
    IN  {f \in DOMAIN m \ {"full_name"} : m[f] # NoneVal /\ m[f] # S("")}

\* C19: when the extraction of one field (full_name) raises, only that field
\* is left out of the returned map: every other field whose extraction
\* returned a value is present
C19_FailureIsolation ==
    (result.op = "map_ocr_to_questionnaire_fields"
        /\ extract_full_name_raises(event.text, event.form_data)) =>
        /\ ExtractedOthers \subseteq DOMAIN result.mapped_data
        /\ "full_name" \notin DOMAIN result.mapped_data

-----------------------------------------------------------------------------
(* Properties of form generation *)

\* the countries the visa-required list contains at least
MinimumVisaRequired == {"IND", "CHN", "PAK", "BGD", "NPL", "LKA"}

\* countries outside the list
VisaExempt == {"CAN", "USA"}

\* the form service has generated the forms of the event
ServiceGenerated == result.op = "generate_all_forms" /\ result.raised = ""

\* the form fill Lambda has generated the forms of the event
LambdaGenerated == result.op = "form_fill" /\ result.statusCode = 200

\* the passport country code of the event, "" if it has none
EventCountry ==
    LET code ==
            IF event.fn = "form_fill"
            THEN Get(Override(event.answers.items, event.ocr_data.items),
                     "passport_country_code")
            ELSE Get(Section(event.responses, "basic_info"), "passport_country_code")
    IN  IF code.kind = "str" THEN code.s ELSE ""

\* C14: on every generation path the two mandatory forms are produced, the
\* visa form is produced for IND, CHN, PAK, BGD, NPL and LKA, and exactly two
\* forms are produced for CAN and USA
C14_VisaFormIffListed ==
    /\ ServiceGenerated =>
        /\ {IMM1294, IMM5645} \subseteq DOMAIN result.forms
        /\ DOMAIN result.forms \subseteq {IMM1294, IMM5645, IMM5257}
        /\ EventCountry \in MinimumVisaRequired => IMM5257 \in DOMAIN result.forms
        /\ EventCountry \in VisaExempt => IMM5257 \notin DOMAIN result.forms
    /\ LambdaGenerated =>
        /\ result.forms_generated \in {2, 3}
        /\ EventCountry \in MinimumVisaRequired => result.forms_generated = 3
        /\ EventCountry \in VisaExempt => result.forms_generated = 2

\* a field without a value: None, empty or whitespace only
Blank(f) == f.value = NoneVal \/ f.value.s \in {"", " ", "  "}

\* the form _validate_form or auto_fill_form returned
ValidatedForm == result.form

\* a form has been validated
FormValidated ==
    \/ result.op = "validate_form"
    \/ result.op = "auto_fill_form" /\ result.raised = ""

\* C15: completion_percentage is non-blank fields / all fields x 100, and 0
\* for a form without fields; is_valid holds exactly when no required field
\* is blank; validation_errors has exactly one message per blank required
\* field and none for a blank optional field
C15_ValidationCounts ==
    FormValidated =>
        LET fields == AllFields(ValidatedForm.sections)
            total == Len(fields)
            non_blank == {i \in 1..total : ~Blank(fields[i])}
            blank_required == {i \in 1..total : Blank(fields[i]) /\ fields[i].is_required}
            pct == ValidatedForm.completion_percentage
        IN  /\ total > 0 => pct.num * total = Cardinality(non_blank) * 100 * pct.den
            /\ total = 0 => pct.num = 0
            /\ ValidatedForm.is_valid <=> blank_required = {}
            /\ Len(ValidatedForm.validation_errors) = Cardinality(blank_required)
            /\ \A i \in blank_required :
                    "Required field '" \o fields[i].field_name \o "' is empty"
                        \in Range(ValidatedForm.validation_errors)

\* the form of test_form_validation: one of three fields filled, one required
\* field blank, one optional field blank
C15_Witness ==
    /\ result.op = "validate_form"
    /\ Len(AllFields(ValidatedForm.sections)) = 3
    /\ ValidatedForm.completion_percentage.num * 3
            = 100 * ValidatedForm.completion_percentage.den
    /\ ~ValidatedForm.is_valid
    /\ Len(ValidatedForm.validation_errors) = 1

\* d with key k set to v
Put(d, k, v) == [x \in DOMAIN d \cup {k} |-> IF x = k THEN v ELSE d[x]]

\* canonical fields the forms map, with a value to add: <<section, key, value>>,
\* section "" for a top-level field
Additions ==
    {<<"basic_info", "passport_country_code", S("IND")>>,
     <<"basic_info", "date_of_birth", D(2003, 5, 4)>>,
     <<"basic_info", "current_residence", S("India")>>,
     <<"basic_info", "current_residence", S(" ")>>,
     <<"financial_status", "gic_amount", N(206350)>>,
     <<"financial_status", "gic_amount", N(0)>>,
     <<"medical_exam", "has_medical_exam", B(TRUE)>>,
     <<"", "marital_status", S("Married")>>,
     <<"", "marital_status", S("Never Married/Single")>>,
     <<"", "marital_status", S("")>>,
     <<"", "marital_status", S(" ")>>}

\* the field of addition a is absent from responses
AbsentFrom(responses, a) ==
    IF a[1] = "" THEN a[2] \notin DOMAIN responses
    ELSE a[2] \notin DOMAIN Section(responses, a[1])

\* responses plus the field of addition a
Plus(responses, a) ==
    IF a[1] = "" THEN Put(responses, a[2], a[3])
    ELSE Put(responses, a[1], Put(Section(responses, a[1]), a[2], a[3]))

\* C16: filling a form from the data plus a field that was absent gives a
\* completion_percentage that is not lower
C16_CompletionMonotone ==
    (result.op = "auto_fill_form" /\ result.raised = ""
        /\ event.responses \in FillResponses) =>
        \A a \in Additions :
            AbsentFrom(event.responses, a) =>
                LET before == result.form.completion_percentage
                    after == auto_fill_form(event.form_type,
                                Plus(event.responses, a)).completion_percentage
                IN  after.num * before.den >= before.num * after.den

\* what two results of the same call must agree on: everything but the
\* generation timestamp (generated_at of the response, completion_date of a
\* stored form) and the storage outcome of each form
Content(r) ==
    IF r.op = "form_fill" /\ r.statusCode = 200
    THEN [forms_generated |-> r.forms_generated,
          completion_percentage |-> r.completion_percentage]
    ELSE IF r.op = "form_fill" THEN [statusCode |-> r.statusCode]
    ELSE IF r.op = "auto_fill_forms" /\ ~r.failed
    THEN [forms |-> r.value.forms, total_forms |-> r.value.total_forms]
    ELSE r

\* the forms both invocations stored are the same but for completion_date
SameStoredForms(r1, r2) ==
    (r1.op = "form_fill" /\ r2.op = "form_fill") =>
        \A ft \in DOMAIN r1.put_objects \cap DOMAIN r2.put_objects :
            [r1.put_objects[ft] EXCEPT !.completion_date = 0]
                = [r2.put_objects[ft] EXCEPT !.completion_date = 0]

EventMappings ==
    CASE event.form_type = IMM1294 -> Imm1294Mappings(event.responses)
      [] event.form_type = IMM5645 -> Imm5645Mappings(event.responses)
      [] event.form_type = IMM5257 -> Imm5257Mappings(event.responses)

\* C18: a field with an entry in the mapping table holds the stringified value
\* if and only if the value is present and non-empty; it is blank otherwise,
\* and so is a field without an entry
C18_FillRule ==
    (result.op = "auto_fill_form" /\ result.raised = "") =>
        LET fields == AllFields(result.form.sections)
            m == EventMappings
        IN  \A i \in 1..Len(fields) :
                IF fields[i].field_id \in DOMAIN m
                   /\ m[fields[i].field_id] # NoneVal
                   /\ m[fields[i].field_id] # S("")
                THEN fields[i].value = S(Str(m[fields[i].field_id]))
                ELSE fields[i].value = NoneVal

\* C20: when a form cannot be stored, the form service raises or the input is
\* malformed, the request still returns forms: the Lambda answers 200 with the
\* forms it generated and auto_fill_forms returns its forms
C20_GracefulDegradation ==
    /\ (result.op = "form_fill" /\ event.eligibility = Absent) =>
            /\ result.statusCode = 200
            /\ result.forms_generated >= 2
    /\ result.op = "auto_fill_forms" =>
            {IMM1294, IMM5645} \subseteq DOMAIN result.value.forms

-----------------------------------------------------------------------------
(* Properties of the document endpoints *)

\* the endpoints that initialise an upload
InitOps == {"documents/init", "documents/init-simple", "documents-simple/init"}

\* the endpoints that look a document up
LookupOps == {"documents/upload-complete", "documents/download",
              "documents-simple/upload-complete", "documents-simple/download"}

\* the store the endpoint op reads
StoreOf(op, store) ==
    IF op \in {"documents/upload-complete", "documents/download"}
    THEN store.table ELSE store.local

\* C21: an upload initialisation whose body lacks session_id is answered with
\* an error, and no metadata is stored for it (under a defaulted session id
\* or any other)
C21_MissingSessionIdRejected ==
    [][(result'.op \in InitOps /\ "session_id" \notin DOMAIN result'.request)
          => /\ result'.response.status = "error"
             /\ metadata_store' = metadata_store]_vars

\* C22: a request that names a document id the store does not hold is
\* answered with a not-found error, which is not the answer a request without
\* document_id gets (400 or 422), and the store is left as it was
C22_UnknownDocumentNotFound ==
    [][(/\ result'.op \in LookupOps
        /\ "document_id" \in DOMAIN result'.request
        /\ result'.request.document_id.s \notin DOMAIN StoreOf(result'.op, metadata_store))
          => /\ result'.response.status = "error"
             /\ result'.response.status_code \notin {400, 422}
             /\ metadata_store' = metadata_store]_vars

-----------------------------------------------------------------------------
(* Properties of the merge of answers and OCR data *)

\* the keys a form fill event has both in answers and in ocr_data
KeysInBoth(ev) == DOMAIN ev.answers.items \cap DOMAIN ev.ocr_data.items

\* C23: in the canonical data the forms are filled from, a key that both the
\* answers and the OCR data have carries the value of the answer: the field
\* of IMM1294 of that name holds the answer
C23_AnswerOverridesOcr ==
    (/\ result # NoResponse
     /\ result.op = "form_fill"
     /\ result.statusCode = 200
     /\ IMM1294 \in DOMAIN result.put_objects)
        => \A k \in KeysInBoth(event) :
              result.put_objects[IMM1294].fields[k] = event.answers.items[k]

-----------------------------------------------------------------------------
(* Properties of the form fill step *)

\* the form fill step has handled the event
FormFillDone == result # NoResponse /\ result.op = "form_fill"

\* C28: with eligibility = false the form fill step answers statusCode 400
\* and success false, reports no form and puts no object in the bucket;
\* objects are put only when eligibility is true or not supplied
C28_FormsOnlyForEligible ==
    FormFillDone =>
        /\ event.eligibility = B(FALSE) =>
                /\ result.statusCode = 400
                /\ ~result.success
                /\ result.put_objects = EmptyMap
                /\ {"forms_generated", "forms_urls"} \cap DOMAIN result = {}
        /\ result.put_objects # EmptyMap => event.eligibility \in {Absent, B(TRUE)}

\* an ineligible applicant with complete answers has been refused
C28_Witness ==
    /\ FormFillDone
    /\ event.eligibility = B(FALSE)
    /\ IsDict(event.answers)
    /\ "given_names" \in DOMAIN event.answers.items
    /\ result.statusCode = 400

-----------------------------------------------------------------------------
(* Properties of the eligibility result *)

\* the elements of seq are pairwise different
NoDuplicates(seq) == \A i, j \in DOMAIN seq : seq[i] = seq[j] => i = j

\* the result for an applicant who has answered nothing and has no document:
\* every predicate is missing
NothingMet == check_study_permit_eligibility(EmptyMap, EmptyMap)

\* C25: requirements_met and requirements_missing share no predicate and
\* hold the seven predicates between them, each once; recommendations holds
\* one string for each missing predicate, the string the predicate gets when
\* every predicate is missing, and is empty when nothing is missing
C25_MetMissingPartition ==
    EligibilityChecked =>
        /\ Range(result.requirements_met) \cap Range(result.requirements_missing) = {}
        /\ Range(result.requirements_met) \cup Range(result.requirements_missing)
                = {"acceptance_letter", "financial_proof", "language_test",
                   "medical_exam", "clean_criminal_record", "valid_passport",
                   "provincial_attestation"}
        /\ NoDuplicates(result.requirements_met)
        /\ NoDuplicates(result.requirements_missing)
        /\ Len(result.recommendations) = Len(result.requirements_missing)
        /\ NoDuplicates(result.recommendations)
        /\ \A i \in DOMAIN result.requirements_missing :
                \E j \in DOMAIN NothingMet.requirements_missing :
                    /\ NothingMet.requirements_missing[j] = result.requirements_missing[i]
                    /\ NothingMet.recommendations[j] = result.recommendations[i]

\* two predicates are missing and two recommendations are given
C25_Witness ==
    /\ EligibilityChecked
    /\ Len(result.requirements_missing) = 2
    /\ Len(result.recommendations) = 2

-----------------------------------------------------------------------------
(* Properties of the form objects *)

\* C24: after any sequence of auto-fill requests no field of a template has
\* a value and the template's completion_percentage, is_valid and
\* validation_errors are what they were when the service was constructed;
\* every form returned is an object of its own, not a template, and holds
\* what it held when it was returned
C24_TemplatesImmutable ==
    /\ \A t \in FormTypes :
        LET template == Deref(form_heap, t)
        IN  /\ \A i \in DOMAIN template.sections :
                    \A j \in DOMAIN template.sections[i].fields :
                        template.sections[i].fields[j].value = NoneVal
            /\ template.completion_percentage = Pct(0, 0)
            /\ ~template.is_valid
            /\ template.validation_errors = <<>>
    /\ \A i \in DOMAIN returned :
        /\ returned[i].ref \notin FormTypes
        /\ \A j \in DOMAIN returned : returned[j].ref = returned[i].ref => j = i
        /\ Deref(form_heap, returned[i].ref) = returned[i].form

\* two requests for the same form type have returned forms that differ
C24_Witness ==
    /\ Len(returned) = 2
    /\ returned[1].form.form_type = returned[2].form.form_type
    /\ returned[1].form # returned[2].form
    /\ \E i \in DOMAIN returned[2].form.sections :
            \E j \in DOMAIN returned[2].form.sections[i].fields :
                returned[2].form.sections[i].fields[j].value # NoneVal

-----------------------------------------------------------------------------
(* Properties of the OCR Lambda function *)

\* the Lambda function has handled the batch
BatchDone == result # NoResponse /\ result.op = "ocr"

\* the document a record that can be processed names
RecordDocument(record) ==
    IF record.body.kind = "s3_event"
    THEN record.body.Records[1].s3.object.key.dirs[3]
    ELSE record.body.items.key.dirs[3]

ExtractedModes == {"sync_detect_text", "sync_analyze_document"}

\* C30: a document has status 'processed' only if its text was extracted: not
\* when the Textract call failed (mode 'error') and not when only an
\* asynchronous job was started (mode 'async_detect_text'); a document whose
\* extraction failed has status 'failed'
C30_ProcessedOnlyAfterExtraction ==
    BatchDone =>
        \A d \in DOMAIN documents_table :
            /\ documents_table[d].status = "processed"
                    => documents_table[d].ocr_mode \in ExtractedModes
            /\ documents_table[d].ocr_mode = "error"
                    => documents_table[d].status = "failed"

-----------------------------------------------------------------------------
(* Properties of the Visa Wizard workflow *)

\* s is the beginning of t
IsPrefix(s, t) == Len(s) <= Len(t) /\ s = SubSeq(t, 1, Len(s))

\* task is one of the tasks of the sequence
Among(task, tasks) == \E i \in DOMAIN tasks : tasks[i] = task

\* C26: the tasks of an execution start in the order ValidateAnswers,
\* OCRTask, EligibilityTask, FormFillTask; OCRTask has started only if
\* CheckDocuments saw documents_ready = true, FormFillTask only if
\* EligibilityTask has completed; the execution is in WorkflowComplete only
\* if FormFillTask has completed; once an error of a task is caught the
\* execution is in WorkflowFailed and that task is the last one started
C26_TasksInOrder ==
    /\ IsPrefix(execution.started, LambdaTasks)
    /\ Among("OCRTask", execution.started) => execution.observed_ready
    /\ Among("FormFillTask", execution.started) =>
            Among("EligibilityTask", execution.completed)
    /\ execution.state = "WorkflowComplete" =>
            Among("FormFillTask", execution.completed)
    /\ execution.caught # NoError =>
            /\ execution.state = "WorkflowFailed"
            /\ execution.started[Len(execution.started)] = execution.caught.task
            /\ ~Among(execution.caught.task, execution.completed)

\* an execution has run its four tasks and reached WorkflowComplete
C26_Witness ==
    /\ execution.state = "WorkflowComplete"
    /\ execution.completed = LambdaTasks
    /\ execution.observed_ready

\* C27: every execution eventually ends, in WorkflowComplete or in
\* WorkflowFailed (an execution Step Functions aborts because its input has
\* no documents_ready is counted as ended too)
C27_EveryExecutionTerminates ==
    <>(execution.state \in {"WorkflowComplete", "WorkflowFailed", "ExecutionFailed"})

====
